---- MODULE Spec2Model ----
(***************************************************************************)
(* A model of the python toolbox launcher: the shared data store           *)
(* (python_toolbox/tools/system_tools/data_sharer.py) and the tool         *)
(* registry scan (python_toolbox/main.py, load_tools).                     *)
(*                                                                         *)
(* Python dicts are functions whose DOMAIN is the set of keys present.     *)
(* The 'timestamp' / 'last_updated' fields are written by the code but     *)
(* read by no operation of the store (they are only displayed); they are   *)
(* left out of the entries. The values stored are the ones the program     *)
(* passes to set_data (strings, numbers, booleans, parsed JSON): json.dump  *)
(* followed by json.load gives each of them back unchanged.                *)
(***************************************************************************)
EXTENDS Integers, Sequences, FiniteSets, TLC

\* ------------------------------------------------------------------ inputs
Keys == {"k1", "k2"}
Values == {"v1", "v2"}
ToolNames == {"toolA"}
None == "None"
NoKey == "-"

\* data_sharer.py:99-100, the history cap
HistoryLimit == 10

\* Bounds of the model: set_data calls per run of SpecHistory (enough for both
\* keys to pass the history cap), of Spec and of SpecRace.
MaxSets == 22
MaxSetsIo == 3
MaxRaceSets == 3

\* Bound of SpecReload: changes made to the scripts between calls of load_tools.
MaxEdits == 2

\* Bound of SpecGui: ToolRunnerThread objects created per run of the model.
MaxRuns == 2

\* The runs the GUI starts where it is checked beside the console launcher.
MaxLaunchRuns == 1

\* Bound of SpecRobust: calls of set_data.
MaxRobustSets == 1

\* Bound of SpecRecent: calls of add_recent_tool.
MaxAdds == 12

\* Bound of SpecProducers: calls of set_data.
MaxProducerSets == 3

Procs == {"p1", "p2"}
NoProc == "-"

VARIABLES
    shared_data,    \* _shared_data: key -> entry (the current mapping)
    data_history,   \* _data_history: key -> list of history entries
    file,           \* the content of SHARED_DATA_FILE
    ret,            \* what the last call returned
    last,           \* observer: the last call made (operation, key, outcome of its save)
    nsets,          \* number of set_data calls so far
    setLog,         \* ghost: per key, the loaded history followed by the values set since
    persisted,      \* ghost: the document of the last save that returned True
    allOk           \* ghost: every mutating call since the process started returned True

\* Two processes sharing the store file (each holds its own module globals).
VARIABLES
    pmem,           \* per process: its _shared_data and _data_history
    ppc,            \* per process: "start", "idle" (between calls), "writing" (file open)
    pcall,          \* per process: the key of the set_data call in progress
    pdirty,         \* per process: another process wrote the file while this one had it open
    psaved,         \* per process: the keys whose set_data call returned True
    lastWriter,     \* the process whose save completed last
    nrace           \* number of set_data calls so far

\* The tool registry scan (main.py, load_tools).
VARIABLES
    tools_dir,      \* the tools directory: entry name -> [isdir, files: name -> status]
    lt_pc,          \* "idle", "scan" (inside the second loop), "done" (returned)
    lt_cats,        \* entries of tools_dir the outer loop has not reached yet
    lt_cur,         \* the category whose files are being scanned
    lt_files,       \* files of lt_cur the inner loop has not reached yet
    tools,          \* the mapping being built: category -> (tool name -> module)
    total_files,    \* scripts counted by the first pass
    current,        \* scripts reached by the second pass
    loaded_files,   \* imports that succeeded
    failed_files,   \* imports that raised
    returned,       \* the mapping load_tools returned
    scanOrder,      \* ghost: the import attempts of the call, in the order made
    disk,           \* the file system: tools root -> the directory there (or NoDir)
    meipass,        \* hasattr(sys, '_MEIPASS')
    sys_modules,    \* sys.modules: the tool modules imported in this process
    modsAtCall,     \* ghost: sys.modules when the current call started
    everFailed,     \* ghost: the modules whose import raised in an earlier call
    nedits          \* number of changes made to the scripts between calls

loadVars == <<tools_dir, lt_pc, lt_cats, lt_cur, lt_files, tools, total_files, current,
              loaded_files, failed_files, returned, scanOrder, disk, meipass, sys_modules,
              modsAtCall, everFailed, nedits>>

\* The GUI (python_toolbox_gui.py, PythonToolboxGUI and ToolRunnerThread).
VARIABLES
    gui_tools,      \* self.tools: the tool_info records, in insertion order
    category_combo, \* the category selected in the combo box
    search_input,   \* the text of the search box
    tool_list,      \* the items of the list widget: [path, hidden]
    current_row,    \* the current item of the list widget (0: none)
    current_tool,   \* self.current_tool: a tool_info or NoTool
    run_button,     \* the run button is enabled
    stop_button,    \* the stop button is enabled
    tool_thread,    \* self.tool_thread: the index in threads of the last thread created (0: None)
    threads,        \* the ToolRunnerThread objects created, in order
    finished_queue, \* finished_signal emissions the GUI thread has not handled yet
    invoked,        \* ghost: the modules whose main has been called
    launched,       \* ghost: the modules a launch was asked for
    reported        \* ghost: the errors reported, [what, tool]

\* The console launcher (python_toolbox/main.py, main and its menus).
VARIABLES
    args_list,      \* args.list
    args_tool,      \* args.tool: [given, value] (not given: None)
    cli_pc,         \* "none" (no launcher), "start", "menu", "returned", "crashed"
    cli_tools,      \* tools: what load_tools returned to main
    listed,         \* the (category, tool) lines printed by --list, in order
    config0,        \* ghost: the config cache and file when main started
    cli_last        \* observer: the last thing the launcher was asked for,
                    \* [menu, typed, shown, ran]

cliVars == <<args_list, args_tool, cli_pc, cli_tools, listed, config0, cli_last>>

\* The configuration (python_toolbox/config/config.py).
VARIABLES
    config_cache,   \* _config_cache: key -> value
    recent_alias,   \* config_cache['recent_tools'] is the list object of DEFAULT_CONFIG
    default_recent, \* the content of the list DEFAULT_CONFIG['recent_tools']
    config_file,    \* the content of CONFIG_FILE
    cfg_ret,        \* what the last config call returned
    cfg_last,       \* observer: the last config call made and the outcome of its write
    last_use        \* ghost of SpecRecent: tool -> the ordinal of its last add_recent_tool

cfgVars == <<config_cache, recent_alias, default_recent, config_file, cfg_ret, cfg_last,
             last_use>>

guiVars == <<gui_tools, category_combo, search_input, tool_list, current_row, current_tool,
             run_button, stop_button, tool_thread, threads, finished_queue>>
launchVars == <<invoked, launched, reported>>

storeVars == <<shared_data, data_history, ret, last, nsets, setLog, persisted, allOk>>
raceVars == <<pmem, ppc, pcall, pdirty, psaved, lastWriter, nrace>>

vars == <<storeVars, file, raceVars, loadVars, guiVars, launchVars, cfgVars, cliVars>>

\* ----------------------------------------------------------- store: data
EmptyDict == [x \in {} |-> x]

\* data_sharer.py:81-86
Entry(v, t, d) == [value |-> v, tool |-> t, description |-> d]

\* faulty variant: the history entry does not keep the producing tool
HistEntry_noTool(v, t) == [value |-> v, tool |-> None]

\* data_sharer.py:92-96
HistEntry(v, t) == [value |-> v, tool |-> t]

\* The store file: missing, an unparseable (empty or truncated) text, or a document.
NoFile == [kind |-> "absent"]
PartialFile == [kind |-> "partial"]

\* A file that exists and cannot be opened for reading.
UnreadableFile == [kind |-> "unreadable"]

\* json.dump of a dict: a JSON object, a set of name/value members.
JsonDumpObject(d) == {<<k, d[k]>> : k \in DOMAIN d}

\* faulty variant: every key loaded with the value of one member
JsonLoadObject_sameValue(m) ==
    [k \in {p[1] : p \in m} |-> (CHOOSE p \in m : TRUE)[2]]

\* json.load of a JSON object: a dict with one key per member name.
JsonLoadObject(m) ==
    [k \in {p[1] : p \in m} |-> (CHOOSE p \in m : p[1] = k)[2]]

\* data_sharer.py:50-54, the document _save_shared_data writes
Doc(sd, dh) ==
    [kind |-> "doc",
     shared_data |-> JsonDumpObject(sd),
     data_history |-> JsonDumpObject(dh)]

\* An entry as another program wrote it: a JSON object without 'value'.
BadEntry == [tool |-> "toolA", description |-> ""]

\* A store file that is JSON and is not what _save_shared_data writes: its
\* shared_data holds BadEntry under k1.
ForeignFile ==
    [kind |-> "doc",
     shared_data |-> JsonDumpObject([k \in {"k1"} |-> BadEntry]),
     data_history |-> JsonDumpObject([k \in {} |-> <<>>])]

\* Outcomes of one _save_shared_data: the write succeeds; makedirs or open raises
\* (the file is untouched); open(..., 'w') has truncated the file and json.dump or
\* the close raises.
IoOutcomes == {"ok", "open_error", "write_error"}

\* data_sharer.py:57-60, the file after a save
SaveFile(f, sd, dh, io) ==
    CASE io = "ok" -> Doc(sd, dh)
      [] io = "open_error" -> f
      [] OTHER -> PartialFile

\* faulty variant: the except branch reports success
SaveResult_alwaysTrue(io) == TRUE

\* data_sharer.py:62-65, what _save_shared_data returns
SaveResult(io) == io = "ok"

\* data_sharer.py:36-45, the globals after _load_shared_data
LoadSharedData(f, sd, dh) ==
    CASE f.kind = "absent" -> [shared_data |-> sd, data_history |-> dh]
      [] f.kind = "doc" -> [shared_data |-> JsonLoadObject(f.shared_data),
                            data_history |-> JsonLoadObject(f.data_history)]
      [] OTHER -> [shared_data |-> EmptyDict, data_history |-> EmptyDict]

\* What a new process holds after constructing DataSharer (data_sharer.py:22-30).
FreshLoad(f) == LoadSharedData(f, EmptyDict, EmptyDict)

\* faulty variant: an existing key keeps its entry (setdefault instead of assignment)
SetEntry_keepExisting(sd, k, v, t, d) ==
    [x \in DOMAIN sd \cup {k} |-> IF x \in DOMAIN sd THEN sd[x] ELSE Entry(v, t, d)]

\* data_sharer.py:81-86
SetEntry(sd, k, v, t, d) ==
    [x \in DOMAIN sd \cup {k} |-> IF x = k THEN Entry(v, t, d) ELSE sd[x]]

\* faulty variant: the cap is tested one entry too late
TrimHistory_late(h) ==
    IF Len(h) > HistoryLimit + 1
    THEN SubSeq(h, Len(h) - HistoryLimit + 1, Len(h))
    ELSE h

\* faulty variant: the slice keeps the first entries ([:10]) instead of the last ([-10:])
TrimHistory_keepFirst(h) ==
    IF Len(h) > HistoryLimit THEN SubSeq(h, 1, HistoryLimit) ELSE h

\* data_sharer.py:99-100
TrimHistory(h) ==
    IF Len(h) > HistoryLimit
    THEN SubSeq(h, Len(h) - HistoryLimit + 1, Len(h))
    ELSE h

\* data_sharer.py:89-100
AppendHistory(dh, k, v, t) ==
    LET h0 == IF k \in DOMAIN dh THEN dh[k] ELSE <<>>
    IN  [x \in DOMAIN dh \cup {k} |->
            IF x = k THEN TrimHistory(Append(h0, HistEntry(v, t))) ELSE dh[x]]

\* What a caller gets when the call raises instead of returning.
Raised == "raised"

\* data_sharer.py:116-118: an entry that has no 'value' makes the subscript
\* raise KeyError, which nothing catches.
get_data(sd, k) ==
    IF k \in DOMAIN sd
    THEN IF "value" \in DOMAIN sd[k] THEN sd[k].value ELSE Raised
    ELSE None

\* data_sharer.py:172-174
get_history(dh, k) == IF k \in DOMAIN dh THEN dh[k] ELSE <<>>

\* faulty variant: the delete drops every key
DeleteEntry_all(sd, k) == [x \in {} |-> x]

\* data_sharer.py:149
DeleteEntry(sd, k) == [x \in DOMAIN sd \ {k} |-> sd[x]]

\* The values of a history list, in order.
ValuesOf(h) == [i \in 1..Len(h) |-> h[i].value]

\* ghost: the log of values set on k
LogAppend(lg, k, v) ==
    [x \in DOMAIN lg \cup {k} |->
        IF x = k THEN Append(IF k \in DOMAIN lg THEN lg[k] ELSE <<>>, v) ELSE lg[x]]

\* observer: the call that has just been made and how its save went
\* ("none": the call attempted no save)
Observe(op, k, io) == last' = [op |-> op, key |-> k, io |-> io]

\* -------------------------------------------------------- store: actions
\* faulty variant: a failed save rolls the in-memory change back
SetData_rollback(k, v, t, io) ==
    /\ shared_data' = IF io = "ok" THEN SetEntry(shared_data, k, v, t, "") ELSE shared_data
    /\ data_history' = IF io = "ok" THEN AppendHistory(data_history, k, v, t) ELSE data_history
    /\ file' = SaveFile(file, SetEntry(shared_data, k, v, t, ""),
                        AppendHistory(data_history, k, v, t), io)
    /\ ret' = SaveResult(io)
    /\ nsets' = nsets + 1
    /\ setLog' = LogAppend(setLog, k, v)
    /\ persisted' = IF SaveResult(io) THEN Doc(shared_data', data_history') ELSE persisted
    /\ allOk' = (allOk /\ SaveResult(io))

\* data_sharer.py:67-105
SetData(k, v, t, io) ==
    /\ shared_data' = SetEntry(shared_data, k, v, t, "")
    /\ data_history' = AppendHistory(data_history, k, v, t)
    /\ file' = SaveFile(file, shared_data', data_history', io)
    /\ ret' = SaveResult(io)
    /\ nsets' = nsets + 1
    /\ setLog' = LogAppend(setLog, k, v)
    /\ persisted' = IF SaveResult(io) THEN Doc(shared_data', data_history') ELSE persisted
    /\ allOk' = (allOk /\ SaveResult(io))

\* data_sharer.py:107-118
GetData(k) ==
    /\ ret' = get_data(shared_data, k)
    /\ UNCHANGED <<shared_data, data_history, file, nsets, setLog, persisted, allOk>>

\* data_sharer.py:139-151
DeleteData(k, io) ==
    IF k \in DOMAIN shared_data
    THEN /\ shared_data' = DeleteEntry(shared_data, k)
         /\ file' = SaveFile(file, shared_data', data_history, io)
         /\ ret' = SaveResult(io)
         /\ persisted' = IF SaveResult(io) THEN Doc(shared_data', data_history) ELSE persisted
         /\ allOk' = (allOk /\ SaveResult(io))
         /\ UNCHANGED <<data_history, nsets, setLog>>
    ELSE /\ ret' = FALSE
         /\ UNCHANGED <<shared_data, data_history, file, nsets, setLog, persisted, allOk>>

\* faulty variant: clearing also purges the history
ClearAllData_purgeHistory(io) ==
    /\ shared_data' = [x \in {} |-> x]
    /\ data_history' = [x \in {} |-> x]
    /\ file' = SaveFile(file, shared_data', data_history', io)
    /\ ret' = SaveResult(io)
    /\ persisted' = IF SaveResult(io) THEN Doc(shared_data', data_history') ELSE persisted
    /\ allOk' = (allOk /\ SaveResult(io))
    /\ UNCHANGED <<nsets, setLog>>

\* data_sharer.py:153-161
ClearAllData(io) ==
    /\ shared_data' = EmptyDict
    /\ file' = SaveFile(file, shared_data', data_history, io)
    /\ ret' = SaveResult(io)
    /\ persisted' = IF SaveResult(io) THEN Doc(shared_data', data_history) ELSE persisted
    /\ allOk' = (allOk /\ SaveResult(io))
    /\ UNCHANGED <<data_history, nsets, setLog>>

\* data_sharer.py:163-174
GetHistory(k) ==
    /\ ret' = get_history(data_history, k)
    /\ UNCHANGED <<shared_data, data_history, file, nsets, setLog, persisted, allOk>>

\* A new process: the module globals start empty and DataSharer() loads the file
\* (data_sharer.py:22-45, 177).
Restart ==
    /\ shared_data' = FreshLoad(file).shared_data
    /\ data_history' = FreshLoad(file).data_history
    /\ setLog' = [k \in DOMAIN data_history' |-> ValuesOf(data_history'[k])]
    /\ allOk' = TRUE
    /\ UNCHANGED <<file, ret, nsets, persisted>>

\* ------------------------------------------------- two processes, one file
\* faulty variant: the save re-reads the file and keeps the keys it finds there
SaveDoc_merge(f, sd, dh) ==
    LET old == LoadSharedData(f, EmptyDict, EmptyDict)
    IN  Doc([k \in DOMAIN old.shared_data \cup DOMAIN sd |->
                IF k \in DOMAIN sd THEN sd[k] ELSE old.shared_data[k]],
            [k \in DOMAIN old.data_history \cup DOMAIN dh |->
                IF k \in DOMAIN dh THEN dh[k] ELSE old.data_history[k]])

\* data_sharer.py:50-60: the document a save writes over file content f: built
\* from the process's own globals alone, the file is not read
SaveDoc(f, sd, dh) == Doc(sd, dh)

\* A process starts: its globals are empty and DataSharer() loads the file
\* (data_sharer.py:22-45, 177).
RaceStart(p) ==
    /\ ppc[p] \in {"start", "idle"}
    /\ pmem' = [pmem EXCEPT ![p] = FreshLoad(file)]
    /\ ppc' = [ppc EXCEPT ![p] = "idle"]
    /\ psaved' = [psaved EXCEPT ![p] = {}]
    /\ UNCHANGED <<file, pcall, pdirty, lastWriter, nrace>>

\* set_data up to the open of the file (data_sharer.py:79-100, 50-59):
\* open(..., 'w') truncates the file.
RaceSetOpen(p, k, v, t) ==
    /\ ppc[p] = "idle"
    /\ pmem' = [pmem EXCEPT ![p] =
                   [shared_data |-> SetEntry(pmem[p].shared_data, k, v, t, ""),
                    data_history |-> AppendHistory(pmem[p].data_history, k, v, t)]]
    /\ file' = PartialFile
    /\ ppc' = [ppc EXCEPT ![p] = "writing"]
    /\ pcall' = [pcall EXCEPT ![p] = k]
    /\ pdirty' = [pdirty EXCEPT ![p] = FALSE]
    /\ nrace' = nrace + 1
    /\ UNCHANGED <<psaved, lastWriter>>

\* set_data from json.dump to its return (data_sharer.py:60-62, 102): the
\* document is written from the start of the file. Over content another process
\* wrote meanwhile, what is left is this document or, when the other one was
\* longer, this document followed by the other's tail.
RaceSetWrite(p) ==
    /\ ppc[p] = "writing"
    /\ file' \in {SaveDoc(file, pmem[p].shared_data, pmem[p].data_history)}
                   \cup (IF pdirty[p] /\ file.kind = "doc" THEN {PartialFile} ELSE {})
    /\ ppc' = [ppc EXCEPT ![p] = "idle"]
    /\ psaved' = [psaved EXCEPT ![p] =
                     IF SaveResult("ok") THEN psaved[p] \cup {pcall[p]} ELSE psaved[p]]
    /\ pcall' = [pcall EXCEPT ![p] = NoKey]
    /\ pdirty' = [q \in Procs |-> IF q # p /\ ppc[q] = "writing" THEN TRUE ELSE pdirty[q]]
    /\ lastWriter' = p
    /\ UNCHANGED <<pmem, nrace>>

RaceInit ==
    /\ pmem = [p \in Procs |-> [shared_data |-> EmptyDict, data_history |-> EmptyDict]]
    /\ ppc = [p \in Procs |-> "start"]
    /\ pcall = [p \in Procs |-> NoKey]
    /\ pdirty = [p \in Procs |-> FALSE]
    /\ psaved = [p \in Procs |-> {}]
    /\ lastWriter = NoProc
    /\ nrace = 0

\* ------------------------------------------------------ the tool registry
\* File and directory names are sequences of characters.
Dunder == <<"_", "_">>
DotPy == <<".", "p", "y">>

\* str.startswith
StartsWith(s, pre) == Len(s) >= Len(pre) /\ SubSeq(s, 1, Len(pre)) = pre

\* str.endswith
EndsWith(s, suf) ==
    Len(s) >= Len(suf) /\ SubSeq(s, Len(s) - Len(suf) + 1, Len(s)) = suf

\* main.py:63, file_name[:-3]
StripPy(f) == SubSeq(f, 1, Len(f) - Len(DotPy))

\* main.py:43 and 54: the entries of the tools directory taken as categories
IsCategory(dir, c) == dir[c].isdir /\ ~StartsWith(c, Dunder)

\* faulty variant: every .py file is taken, __init__.py included
IsToolFile_anyPy(f) == EndsWith(f, DotPy)

\* main.py:45 and 59: the files of a category taken as tool scripts
IsToolFile(f) == EndsWith(f, DotPy) /\ ~StartsWith(f, Dunder)

\* main.py:64, the module path
ModulePath(c, t) == <<c, t>>

\* faulty variant: the first pass counts every file of a category
CountToolFiles_everyFile(dir) ==
    Cardinality(UNION {{<<c1, f1>> : f1 \in DOMAIN dir[c1].files} :
                          c1 \in {c2 \in DOMAIN dir : dir[c2].isdir}})

\* main.py:41-46, the first pass: the number of tool scripts
CountToolFiles(dir) ==
    Cardinality({<<c, f>> \in UNION {{<<c1, f1>> : f1 \in DOMAIN dir[c1].files} :
                                       c1 \in {c2 \in DOMAIN dir : IsCategory(dir, c2)}} :
                    IsToolFile(f)})

\* The names used in the trees.
CatOne == <<"c", "1">>
CatTwo == <<"c", "2">>
CacheDir == <<"_", "_", "p">>
TopFile == <<"_", "_", "i", ".", "p", "y">>
ScriptA == <<"a", ".", "p", "y">>
ScriptB == <<"b", ".", "p", "y">>
InitFile == <<"_", "_", "i", ".", "p", "y">>
NotesFile == <<"n", ".", "m", "d">>
PrivDir == <<"_", "d">>
PrivFile == <<"_", "h", ".", "p", "y">>
NoCat == <<>>

\* main.py:33, os.path.join(os.path.dirname(__file__), 'tools')
DevRoot == <<"dirname(__file__)", "tools">>

\* main.py:29-30, os.path.join(sys._MEIPASS, 'python_toolbox', 'tools')
FrozenRoot == <<"sys._MEIPASS", "python_toolbox", "tools">>

\* faulty variant: the bundle's directory is never used
ToolsRoot_devOnly(frozen) == DevRoot

\* main.py:27-33, the directory load_tools scans
ToolsRoot(frozen) == IF frozen THEN FrozenRoot ELSE DevRoot

\* A tools root: the directory there, or none.
DirAt(tree) == [exists |-> TRUE, entries |-> tree]
NoDir == [exists |-> FALSE, entries |-> [x \in {} |-> x]]

\* A script either imports ("ok") or raises on import ("broken"); "other" is a
\* file that is no script.
ScriptStates == {"absent", "ok", "broken"}

\* A directory holding the given scripts beside the fixed files.
DirOf(fixed, scripts) ==
    [isdir |-> TRUE,
     files |-> [f \in DOMAIN fixed \cup {g \in DOMAIN scripts : scripts[g] # "absent"} |->
                  IF f \in DOMAIN fixed THEN fixed[f] ELSE scripts[f]]]

\* The trees the scan is run on: two categories, a directory and a file with
\* dunder names, and a directory and a script whose names start with one
\* underscore.
Trees ==
    {[e \in {CatOne, CatTwo, CacheDir, TopFile, PrivDir} |->
        CASE e = CatOne -> DirOf([f \in {InitFile, NotesFile, PrivFile} |->
                                     IF f = PrivFile THEN "ok" ELSE "other"],
                                 [f \in {ScriptA, ScriptB} |-> IF f = ScriptA THEN a1 ELSE b1])
          [] e = CatTwo -> DirOf([f \in {} |-> "other"], [f \in {ScriptA} |-> a2])
          [] e = CacheDir -> DirOf([f \in {ScriptA} |-> "ok"], [f \in {} |-> "absent"])
          [] e = PrivDir -> DirOf([f \in {ScriptA} |-> "ok"], [f \in {} |-> "absent"])
          [] OTHER -> [isdir |-> FALSE, files |-> [f \in {} |-> "other"]]] :
     a1 \in ScriptStates, b1 \in ScriptStates, a2 \in ScriptStates}

\* What lies at the root the scan must not read: one category, one script no
\* tree of Trees has.
DecoyTree ==
    [e \in {CatTwo} |-> DirOf([f \in {} |-> "other"], [f \in {ScriptB} |-> "ok"])]

\* faulty variant: every import runs the script again
ImportSucceeds_reimport(mods, m, state) == state = "ok"

\* main.py:66, import_module: a module already in sys.modules is returned as
\* it is, without reading its file; otherwise the script is run
ImportSucceeds(mods, m, state) == m \in mods \/ state = "ok"

\* The (category, tool) entries of a mapping.
EntriesOf(m) == UNION {{<<c, t>> : t \in DOMAIN m[c]} : c \in DOMAIN m}

\* main.py:24-75 as one step: what load_tools returns for a tree when the scripts in mods are returned
\* without being run.
ResultOf(dir, mods) ==
    [c \in {c1 \in DOMAIN dir : IsCategory(dir, c1)} |->
        [t \in {StripPy(f) : f \in {g \in DOMAIN dir[c].files :
                                       /\ IsToolFile(g)
                                       /\ \/ dir[c].files[g] = "ok"
                                          \/ ModulePath(c, StripPy(g)) \in mods}} |->
            ModulePath(c, t)]]

\* main.py:27-49: load_tools up to the second loop. os.listdir of a root
\* that does not exist raises to the caller.
LoadToolsCall ==
    /\ lt_pc = "idle"
    /\ tools' = EmptyDict
    /\ current' = 0
    /\ loaded_files' = 0
    /\ failed_files' = 0
    /\ lt_cur' = NoCat
    /\ lt_files' = {}
    /\ scanOrder' = <<>>
    /\ modsAtCall' = sys_modules
    /\ IF disk[ToolsRoot(meipass)].exists
       THEN /\ tools_dir' = disk[ToolsRoot(meipass)].entries
            /\ total_files' = CountToolFiles(tools_dir')
            /\ lt_cats' = DOMAIN tools_dir'
            /\ lt_pc' = "scan"
       ELSE /\ tools_dir' = EmptyDict
            /\ total_files' = 0
            /\ lt_cats' = {}
            /\ lt_pc' = "raised"
    /\ UNCHANGED <<returned, disk, meipass, sys_modules, everFailed, nedits>>

\* main.py:52-55: the outer loop reaches entry c
ScanCategory(c) ==
    /\ lt_pc = "scan"
    /\ lt_files = {}
    /\ c \in lt_cats
    /\ lt_cats' = lt_cats \ {c}
    /\ IF IsCategory(tools_dir, c)
       THEN /\ tools' = [x \in DOMAIN tools \cup {c} |-> IF x = c THEN EmptyDict ELSE tools[x]]
            /\ lt_cur' = c
            /\ lt_files' = DOMAIN tools_dir[c].files
       ELSE UNCHANGED <<tools, lt_cur, lt_files>>
    /\ UNCHANGED <<tools_dir, lt_pc, total_files, current, loaded_files, failed_files,
                   returned, scanOrder, disk, meipass, sys_modules, modsAtCall, everFailed,
                   nedits>>

\* faulty variant: an import failure ends the scan (the mapping built so far is returned)
ScanFile_abort(f) ==
    /\ lt_pc = "scan"
    /\ f \in lt_files
    /\ IF IsToolFile(f)
       THEN /\ current' = current + 1
            /\ IF ImportSucceeds(sys_modules, ModulePath(lt_cur, StripPy(f)),
                                 tools_dir[lt_cur].files[f])
               THEN /\ tools' = [tools EXCEPT ![lt_cur] =
                                    [x \in DOMAIN tools[lt_cur] \cup {StripPy(f)} |->
                                        IF x = StripPy(f) THEN ModulePath(lt_cur, StripPy(f))
                                        ELSE tools[lt_cur][x]]]
                    /\ loaded_files' = loaded_files + 1
                    /\ sys_modules' = sys_modules \cup {ModulePath(lt_cur, StripPy(f))}
                    /\ scanOrder' = Append(scanOrder, [category |-> lt_cur, file |-> f,
                                                       outcome |-> "loaded"])
                    /\ lt_files' = lt_files \ {f}
                    /\ UNCHANGED <<failed_files, lt_cats, everFailed>>
               ELSE /\ failed_files' = failed_files + 1
                    /\ everFailed' = everFailed \cup {ModulePath(lt_cur, StripPy(f))}
                    /\ scanOrder' = Append(scanOrder, [category |-> lt_cur, file |-> f,
                                                       outcome |-> "failed"])
                    /\ lt_files' = {}
                    /\ lt_cats' = {}
                    /\ UNCHANGED <<tools, loaded_files, sys_modules>>
       ELSE /\ lt_files' = lt_files \ {f}
            /\ UNCHANGED <<tools, current, loaded_files, failed_files, scanOrder, lt_cats,
                           sys_modules, everFailed>>
    /\ UNCHANGED <<tools_dir, lt_pc, lt_cur, total_files, returned, disk, meipass,
                   modsAtCall, nedits>>

\* main.py:58-71: the inner loop reaches file f of the current category
ScanFile(f) ==
    /\ lt_pc = "scan"
    /\ f \in lt_files
    /\ lt_files' = lt_files \ {f}
    /\ IF IsToolFile(f)
       THEN /\ current' = current + 1
            /\ IF ImportSucceeds(sys_modules, ModulePath(lt_cur, StripPy(f)),
                                 tools_dir[lt_cur].files[f])
               THEN /\ tools' = [tools EXCEPT ![lt_cur] =
                                    [x \in DOMAIN tools[lt_cur] \cup {StripPy(f)} |->
                                        IF x = StripPy(f) THEN ModulePath(lt_cur, StripPy(f))
                                        ELSE tools[lt_cur][x]]]
                    /\ loaded_files' = loaded_files + 1
                    /\ sys_modules' = sys_modules \cup {ModulePath(lt_cur, StripPy(f))}
                    /\ scanOrder' = Append(scanOrder, [category |-> lt_cur, file |-> f,
                                                       outcome |-> "loaded"])
                    /\ UNCHANGED <<failed_files, everFailed>>
               ELSE /\ failed_files' = failed_files + 1
                    /\ everFailed' = everFailed \cup {ModulePath(lt_cur, StripPy(f))}
                    /\ scanOrder' = Append(scanOrder, [category |-> lt_cur, file |-> f,
                                                       outcome |-> "failed"])
                    /\ UNCHANGED <<tools, loaded_files, sys_modules>>
       ELSE UNCHANGED <<tools, current, loaded_files, failed_files, scanOrder, sys_modules,
                        everFailed>>
    /\ UNCHANGED <<tools_dir, lt_pc, lt_cats, lt_cur, total_files, returned, disk, meipass,
                   modsAtCall, nedits>>

\* main.py:73-75: both loops are over, the mapping is returned
ScanReturn ==
    /\ lt_pc = "scan"
    /\ lt_files = {}
    /\ lt_cats = {}
    /\ returned' = tools
    /\ lt_pc' = "done"
    /\ UNCHANGED <<tools_dir, lt_cats, lt_cur, lt_files, tools, total_files, current,
                   loaded_files, failed_files, scanOrder, disk, meipass, sys_modules,
                   modsAtCall, everFailed, nedits>>

\* The caller holds the mapping and the process goes on: load_tools can be
\* called again (test_pyinstaller_path.py:29 and 63 call it twice in one process).
CallerContinues ==
    /\ lt_pc = "done"
    /\ lt_pc' = "idle"
    /\ UNCHANGED <<tools_dir, lt_cats, lt_cur, lt_files, tools, total_files, current,
                   loaded_files, failed_files, returned, scanOrder, disk, meipass,
                   sys_modules, modsAtCall, everFailed, nedits>>

\* Between two calls a script of the scanned root is written, rewritten ("ok":
\* it imports, "broken": its import raises) or removed ("absent").
EditScript(c, f, st) ==
    /\ lt_pc = "idle"
    /\ disk[ToolsRoot(meipass)].exists
    /\ c \in DOMAIN disk[ToolsRoot(meipass)].entries
    /\ disk[ToolsRoot(meipass)].entries[c].isdir
    /\ LET dir == disk[ToolsRoot(meipass)].entries
           old == dir[c].files
           new == [g \in (IF st = "absent" THEN DOMAIN old \ {f} ELSE DOMAIN old \cup {f}) |->
                      IF g = f THEN st ELSE old[g]]
       IN  /\ new # old
           /\ disk' = [disk EXCEPT ![ToolsRoot(meipass)] =
                          DirAt([dir EXCEPT ![c] = [isdir |-> TRUE, files |-> new]])]
    /\ nedits' = nedits + 1
    /\ UNCHANGED <<tools_dir, lt_pc, lt_cats, lt_cur, lt_files, tools, total_files, current,
                   loaded_files, failed_files, returned, scanOrder, meipass, sys_modules,
                   modsAtCall, everFailed>>

\* No scan has been run.
LoadIdle ==
    /\ lt_pc = "idle"
    /\ lt_cats = {}
    /\ lt_cur = NoCat
    /\ lt_files = {}
    /\ tools = EmptyDict
    /\ total_files = 0
    /\ current = 0
    /\ loaded_files = 0
    /\ failed_files = 0
    /\ returned = EmptyDict
    /\ scanOrder = <<>>
    /\ sys_modules = {}
    /\ modsAtCall = {}
    /\ everFailed = {}
    /\ nedits = 0

\* -------------------------------------------------------- the configuration
\* config.py:34, DEFAULT_CONFIG['max_recent_tools']
MaxRecentDefault == 10

\* The keys of DEFAULT_CONFIG the model keeps (config.py:30-42).
ConfigKeys == {"language", "theme", "recent_tools", "max_recent_tools"}

\* config.py:30-42, DEFAULT_CONFIG, its recent_tools list holding dr
DefaultConfig(dr) ==
    [k \in ConfigKeys |->
        CASE k = "language" -> "zh_CN"
          [] k = "theme" -> "default"
          [] k = "recent_tools" -> dr
          [] OTHER -> MaxRecentDefault]

\* dict.get(key, default)
DictGet(d, k, default) == IF k \in DOMAIN d THEN d[k] ELSE default

\* d[k] = v
DictSet(d, k, v) == [x \in DOMAIN d \cup {k} |-> IF x = k THEN v ELSE d[x]]

\* config.py:86-87, the document save_config writes
ConfigDoc(cfg) == [kind |-> "doc", config |-> JsonDumpObject(cfg)]

\* faulty variant: the except branch reports success
SaveConfigResult_alwaysTrue(io) == TRUE

\* config.py:90 and 93, what save_config returns
SaveConfigResult(io) == io = "ok"

\* config.py:84-87, the config file after a save
SaveConfigFile(f, cfg, io) ==
    CASE io = "ok" -> ConfigDoc(cfg)
      [] io = "open_error" -> f
      [] OTHER -> PartialFile

\* faulty variant: the tool is inserted without being removed first
MoveToFront_noRemove(lst, x) == <<x>> \o lst

\* list.remove(x) after "if x in list", then list.insert(0, x) (config.py:112-116)
MoveToFront(lst, x) == <<x>> \o SelectSeq(lst, LAMBDA y : y # x)

\* lst[:n] for n >= 0
Prefix(lst, n) == SubSeq(lst, 1, IF n < Len(lst) THEN n ELSE Len(lst))

ObserveCfg(op, io) == cfg_last' = [op |-> op, io |-> io] /\ UNCHANGED last_use

\* config.py:75-93, save_config() with no argument: the cache is written
SaveConfig(io) ==
    /\ config_file' = SaveConfigFile(config_file, config_cache, io)
    /\ cfg_ret' = SaveConfigResult(io)
    /\ UNCHANGED <<config_cache, recent_alias, default_recent>>

\* config.py:95-98
GetConfig(key) ==
    /\ cfg_ret' = DictGet(config_cache, key, None)
    /\ UNCHANGED <<config_cache, recent_alias, default_recent, config_file>>

\* config.py:100-104: the cached dict is changed in place, then saved
SetConfig(key, value, io) ==
    /\ config_cache' = DictSet(config_cache, key, value)
    /\ recent_alias' = (recent_alias /\ key # "recent_tools")
    /\ config_file' = SaveConfigFile(config_file, config_cache', io)
    /\ cfg_ret' = SaveConfigResult(io)
    /\ UNCHANGED default_recent

\* config.py:106-123: the list held by the cache is changed in place (it is
\* the list of DEFAULT_CONFIG when the cache is a copy of the defaults), then
\* a slice of it, a new list, is stored in the cache and saved.
AddRecentTool(tool_name, io) ==
    LET recent_tools == DictGet(config_cache, "recent_tools", <<>>)
        moved == MoveToFront(recent_tools, tool_name)
        max_recent == DictGet(config_cache, "max_recent_tools", MaxRecentDefault)
    IN  /\ default_recent' = IF recent_alias /\ "recent_tools" \in DOMAIN config_cache
                             THEN moved ELSE default_recent
        /\ config_cache' = DictSet(config_cache, "recent_tools", Prefix(moved, max_recent))
        /\ recent_alias' = FALSE
        /\ config_file' = SaveConfigFile(config_file, config_cache', io)
        /\ cfg_ret' = SaveConfigResult(io)

\* config.py:125-128
GetRecentTools ==
    /\ cfg_ret' = DictGet(config_cache, "recent_tools", <<>>)
    /\ UNCHANGED <<config_cache, recent_alias, default_recent, config_file>>

\* config.py:130-134: the cache becomes a shallow copy of DEFAULT_CONFIG
ResetConfig(io) ==
    /\ config_cache' = DefaultConfig(default_recent)
    /\ recent_alias' = TRUE
    /\ config_file' = SaveConfigFile(config_file, config_cache', io)
    /\ cfg_ret' = SaveConfigResult(io)
    /\ UNCHANGED default_recent

\* config.py:47-73 and 147: the module has been imported in a process that
\* found no config file: the cache is a copy of the defaults, which load_config
\* has saved.
ConfigInit ==
    /\ config_cache = DefaultConfig(<<>>)
    /\ recent_alias = TRUE
    /\ default_recent = <<>>
    /\ config_file = ConfigDoc(DefaultConfig(<<>>))
    /\ cfg_ret = None
    /\ cfg_last = [op |-> "load", io |-> "none"]
    /\ last_use = EmptyDict

\* ------------------------------------------------------------------ the GUI
\* f"{category}.{tool_name}" (python_toolbox_gui.py:240, main.py:146)
ToolPath(c, t) == c \o <<".">> \o t

\* The scripts of the registry that define no main function.
NoMainModules == {ModulePath(CatOne, StripPy(ScriptB))}

\* hasattr(module, 'main')
HasMain(m) == m \notin NoMainModules

\* The first line of a module's docstring.
Description(m) == IF m[2] = StripPy(ScriptA) THEN <<"A", "x">> ELSE <<"y">>

\* python_toolbox_gui.py:243-250
ToolInfo(c, t) ==
    [path |-> ToolPath(c, t), module |-> ModulePath(c, t), name |-> t, category |-> c,
     description |-> Description(ModulePath(c, t)), has_main |-> HasMain(ModulePath(c, t))]

NoTool == [path |-> <<>>]

\* python_toolbox_gui.py:135, the first item of the category combo box
AllTools == <<"*">>

\* str.lower, on the characters used
Lower(s) == [i \in 1..Len(s) |-> IF s[i] = "A" THEN "a" ELSE s[i]]

\* sub in s
Contains(s, sub) ==
    \E i \in 0..(Len(s) - Len(sub)) : SubSeq(s, i + 1, i + Len(sub)) = sub

\* self.tools.get(tool_path)
InfoOf(path) == CHOOSE ti \in {gui_tools[i] : i \in 1..Len(gui_tools)} : ti.path = path

\* The subsequence of s whose elements satisfy the test given as a set.
RECURSIVE SelectIn(_, _)
SelectIn(s, keep) ==
    IF s = <<>> THEN <<>>
    ELSE IF Head(s) \in keep THEN <<Head(s)>> \o SelectIn(Tail(s), keep)
         ELSE SelectIn(Tail(s), keep)

\* python_toolbox_gui.py:269-284, the list widget after display_tools
DisplayedItems(cat) ==
    LET shown == {gui_tools[i] : i \in {j \in 1..Len(gui_tools) :
                                          cat = AllTools \/ gui_tools[j].category = cat}}
        infos == SelectIn(gui_tools, shown)
    IN  [i \in 1..Len(infos) |-> [path |-> infos[i].path, hidden |-> FALSE]]

\* python_toolbox_gui.py:290-309, the hidden flag filter_tools gives an item
HiddenBy(text, cat, path) ==
    LET ti == InfoOf(path)
    IN  IF cat = AllTools \/ ti.category = cat
        THEN ~(Contains(Lower(path), Lower(text))
               \/ Contains(Lower(ti.description), Lower(text)))
        ELSE TRUE

\* python_toolbox_gui.py:311-334, show_tool_info for the item of a tool
ShowToolInfo(path) ==
    /\ current_tool' = InfoOf(path)
    /\ run_button' = TRUE

\* The user makes row r of the list the current item (currentItemChanged).
SelectTool(r) ==
    /\ r \in 1..Len(tool_list)
    /\ r # current_row
    /\ ~tool_list[r].hidden
    /\ current_row' = r
    /\ ShowToolInfo(tool_list[r].path)
    /\ UNCHANGED <<gui_tools, category_combo, search_input, tool_list, stop_button,
                   tool_thread, threads, finished_queue, invoked, launched, reported>>

\* python_toolbox_gui.py:265-284: the user picks another category; display_tools
\* refills the list and makes its first row current, which runs show_tool_info.
ChangeCategory(cat) ==
    /\ cat # category_combo
    /\ category_combo' = cat
    /\ tool_list' = DisplayedItems(cat)
    /\ IF Len(tool_list') > 0
       THEN /\ current_row' = 1
            /\ ShowToolInfo(tool_list'[1].path)
       ELSE /\ current_row' = 0
            /\ UNCHANGED <<current_tool, run_button>>
    /\ UNCHANGED <<gui_tools, search_input, stop_button, tool_thread, threads,
                   finished_queue, invoked, launched, reported>>

\* python_toolbox_gui.py:286-309: the user edits the search text
EditSearch(text) ==
    /\ text # search_input
    /\ search_input' = text
    /\ tool_list' = [i \in 1..Len(tool_list) |->
                       [path |-> tool_list[i].path,
                        hidden |-> HiddenBy(text, category_combo, tool_list[i].path)]]
    /\ UNCHANGED <<gui_tools, category_combo, current_row, current_tool, run_button,
                   stop_button, tool_thread, threads, finished_queue, invoked, launched, reported>>

\* python_toolbox_gui.py:39-43, a ToolRunnerThread just constructed and started
NewThread(ti) ==
    [module |-> ti.module, phase |-> "started", running |-> FALSE, outcome |-> "none",
     emitted |-> "none", stopped |-> FALSE]

\* python_toolbox_gui.py:336-365: the user clicks the enabled run button
RunTool ==
    /\ run_button
    /\ IF current_tool = NoTool
       THEN /\ reported' = reported \cup {[what |-> "no tool selected", tool |-> <<>>]}
            /\ UNCHANGED <<run_button, stop_button, tool_thread, threads>>
       ELSE IF ~current_tool.has_main
       THEN /\ reported' = reported \cup {[what |-> "no main", tool |-> current_tool.module]}
            /\ UNCHANGED <<run_button, stop_button, tool_thread, threads>>
       ELSE /\ run_button' = FALSE
            /\ stop_button' = TRUE
            /\ threads' = Append(threads, NewThread(current_tool))
            /\ tool_thread' = Len(threads) + 1
            /\ UNCHANGED reported
    /\ launched' = IF current_tool = NoTool THEN launched
                   ELSE launched \cup {current_tool.module}
    /\ UNCHANGED <<gui_tools, category_combo, search_input, tool_list, current_row,
                   current_tool, finished_queue, invoked>>

\* faulty variant: stop ends the worker and reports the run as failed
StopTool_terminate ==
    /\ stop_button
    /\ IF tool_thread # 0 /\ threads[tool_thread].running
       THEN /\ threads' = [threads EXCEPT ![tool_thread].running = FALSE,
                                          ![tool_thread].stopped = TRUE,
                                          ![tool_thread].phase = "finished",
                                          ![tool_thread].emitted = FALSE]
            /\ finished_queue' = Append(finished_queue,
                                        [thread |-> tool_thread, success |-> FALSE])
       ELSE UNCHANGED <<threads, finished_queue>>
    /\ UNCHANGED <<gui_tools, category_combo, search_input, tool_list, current_row,
                   current_tool, run_button, stop_button, tool_thread, invoked, launched, reported>>

\* python_toolbox_gui.py:367-373 and 76-80: the user clicks the enabled stop button
StopTool ==
    /\ stop_button
    /\ IF tool_thread # 0 /\ threads[tool_thread].running
       THEN threads' = [threads EXCEPT ![tool_thread].running = FALSE,
                                       ![tool_thread].stopped = TRUE]
       ELSE UNCHANGED threads
    /\ UNCHANGED <<gui_tools, category_combo, search_input, tool_list, current_row,
                   current_tool, run_button, stop_button, tool_thread, finished_queue,
                   invoked, launched, reported>>

\* python_toolbox_gui.py:45-66: the worker enters run(), sets its flag and
\* looks for the entry point; without one it reports and emits finished(False).
ThreadRun(i) ==
    /\ i \in 1..Len(threads)
    /\ threads[i].phase = "started"
    /\ IF HasMain(threads[i].module)
       THEN /\ threads' = [threads EXCEPT ![i].phase = "main", ![i].running = TRUE]
            /\ invoked' = invoked \cup {threads[i].module}
            /\ UNCHANGED <<finished_queue, reported>>
       ELSE /\ threads' = [threads EXCEPT ![i].phase = "finished", ![i].running = FALSE,
                                          ![i].emitted = FALSE]
            /\ finished_queue' = Append(finished_queue, [thread |-> i, success |-> FALSE])
            /\ reported' = reported \cup {[what |-> "no main", tool |-> threads[i].module]}
            /\ UNCHANGED invoked
    /\ UNCHANGED <<gui_tools, category_combo, search_input, tool_list, current_row,
                   current_tool, run_button, stop_button, tool_thread, launched>>

\* How a tool's main can end: it returns, raises an Exception, or raises
\* SystemExit (which "except Exception" does not catch).
MainOutcomes == {"returned", "raised", "exited"}

\* python_toolbox_gui.py:58-74: the tool's main ends; finished is emitted with
\* True after a return, False after an Exception, not at all after SystemExit;
\* the finally clause clears the flag.
MainEnds(i, how) ==
    /\ i \in 1..Len(threads)
    /\ threads[i].phase = "main"
    /\ threads' = [threads EXCEPT ![i].phase = "finished", ![i].running = FALSE,
                                  ![i].outcome = how,
                                  ![i].emitted = IF how = "exited" THEN "none"
                                                 ELSE (how = "returned")]
    /\ finished_queue' = IF how = "exited" THEN finished_queue
                         ELSE Append(finished_queue,
                                     [thread |-> i, success |-> (how = "returned")])
    /\ UNCHANGED <<gui_tools, category_combo, search_input, tool_list, current_row,
                   current_tool, run_button, stop_button, tool_thread, invoked, launched, reported>>

\* A worker whose run() is over and whose signal has been handled: nothing
\* reads its fields any more.
DoneThread(th) ==
    [module |-> th.module, phase |-> "done", running |-> FALSE, outcome |-> "none",
     emitted |-> "none", stopped |-> FALSE]

\* python_toolbox_gui.py:381-397: the GUI thread handles a finished signal
ToolFinished ==
    /\ finished_queue # <<>>
    /\ finished_queue' = Tail(finished_queue)
    /\ run_button' = TRUE
    /\ stop_button' = FALSE
    /\ threads' = [threads EXCEPT ![Head(finished_queue).thread] =
                      DoneThread(threads[Head(finished_queue).thread])]
    /\ UNCHANGED <<gui_tools, category_combo, search_input, tool_list, current_row,
                   current_tool, tool_thread, invoked, launched, reported>>

\* The tools the GUI and the console launcher are run on: what load_tools
\* returns, in the order of its mapping.
AppTools == <<ToolInfo(CatOne, StripPy(ScriptA)), ToolInfo(CatOne, StripPy(ScriptB)),
              ToolInfo(CatTwo, StripPy(ScriptA))>>

AppCategories == {CatOne, CatTwo}

SearchTexts == {<<>>, <<"A">>}

\* No GUI has been constructed.
GuiIdle ==
    /\ gui_tools = <<>>
    /\ category_combo = AllTools
    /\ search_input = <<>>
    /\ tool_list = <<>>
    /\ current_row = 0
    /\ current_tool = NoTool
    /\ run_button = FALSE
    /\ stop_button = FALSE
    /\ tool_thread = 0
    /\ threads = <<>>
    /\ finished_queue = <<>>

LaunchInit == invoked = {} /\ launched = {} /\ reported = {}

\* python_toolbox_gui.py:88-106 and 218-263: the window after construction;
\* load_toolbox has filled self.tools and display_tools has made the first row
\* current, which ran show_tool_info.
GuiInit ==
    /\ gui_tools = AppTools
    /\ category_combo = AllTools
    /\ search_input = <<>>
    /\ tool_list = [i \in 1..Len(AppTools) |-> [path |-> AppTools[i].path, hidden |-> FALSE]]
    /\ current_row = 1
    /\ current_tool = AppTools[1]
    /\ run_button = TRUE
    /\ stop_button = FALSE
    /\ tool_thread = 0
    /\ threads = <<>>
    /\ finished_queue = <<>>

StoreInit ==
    /\ shared_data = EmptyDict
    /\ data_history = EmptyDict
    /\ file = NoFile
    /\ ret = None
    /\ last = [op |-> "load", key |-> NoKey, io |-> "none"]
    /\ nsets = 0
    /\ setLog = EmptyDict
    /\ persisted = NoFile
    /\ allOk = TRUE

\* ------------------------------------------------------ the console launcher
\* str.split('.')
RECURSIVE Split(_)
Split(s) ==
    IF \A i \in 1..Len(s) : s[i] # "." THEN <<s>>
    ELSE LET i == CHOOSE j \in 1..Len(s) : s[j] = "." /\ \A k \in 1..(j - 1) : s[k] # "."
         IN  <<SubSeq(s, 1, i - 1)>> \o Split(SubSeq(s, i + 1, Len(s)))

\* argparse: --tool not given is None, --tool X is the string X
NoArg == [given |-> FALSE, value |-> <<>>]
Arg(x) == [given |-> TRUE, value |-> x]

\* The truth value of args.tool: None and the empty string are false.
Truthy(a) == a.given /\ a.value # <<>>

\* faulty variant: --tool is handled before --list
ModeOf_toolFirst(lst, a) == IF Truthy(a) THEN "tool" ELSE IF lst THEN "list" ELSE "menu"

\* main.py:303, 313 and 335: the mode main runs in
ModeOf(lst, a) == IF lst THEN "list" ELSE IF Truthy(a) THEN "tool" ELSE "menu"

\* The elements of a set in the order a loop over the mapping meets them.
RECURSIVE ItemsOf(_)
ItemsOf(S) ==
    IF S = {} THEN <<>>
    ELSE LET x == CHOOSE y \in S : TRUE IN <<x>> \o ItemsOf(S \ {x})

\* main.py:305-310, the lines --list prints, one for each tool of each category
ListLines(tls) == ItemsOf(EntriesOf(tls))

\* faulty variant: main is called without looking for it
RunsMain_always(m) == TRUE

\* main.py:149, 202, 271 and 325: hasattr(tool_module, 'main')
RunsMain(m) == HasMain(m)

\* How a tool's main ends when the console launcher calls it: it returns,
\* raises ValueError, raises another exception, or calls sys.exit.
ConsoleOutcomes == {"returned", "value_error", "raised", "exited"}

\* main.py:313-332, the --tool mode. The try that catches the ValueError of
\* the unpacking also encloses the call of the tool's main.
CliTool(tls, how, io) ==
    LET parts == Split(args_tool.value)
    IN  IF Len(parts) # 2
        THEN /\ reported' = reported \cup {[what |-> "format error", tool |-> <<>>]}
             /\ cli_pc' = "returned"
             /\ UNCHANGED <<invoked, launched, cfgVars>>
        ELSE IF parts[1] \in DOMAIN tls /\ parts[2] \in DOMAIN tls[parts[1]]
        THEN LET m == tls[parts[1]][parts[2]]
             IN  /\ AddRecentTool(args_tool.value, io) /\ ObserveCfg("add", io)
                 /\ launched' = launched \cup {m}
                 /\ IF RunsMain(m)
                    THEN /\ invoked' = invoked \cup {m}
                         /\ reported' = IF how = "value_error"
                                        THEN reported \cup {[what |-> "format error",
                                                             tool |-> <<>>]}
                                        ELSE reported
                         /\ cli_pc' = IF how \in {"returned", "value_error"}
                                      THEN "returned" ELSE "crashed"
                    ELSE /\ reported' = reported \cup {[what |-> "no main", tool |-> m]}
                         /\ cli_pc' = "returned"
                         /\ UNCHANGED invoked
        ELSE /\ reported' = reported \cup {[what |-> "not found", tool |-> <<>>]}
             /\ cli_pc' = "returned"
             /\ UNCHANGED <<invoked, launched, cfgVars>>

\* No tool path.
NoPath == <<>>

\* observer: the mode or menu entry, the number the user typed, the tool path
\* displayed beside that number, and the tool path the launcher went on to
\* launch (NoPath: none)
ObserveCli(menu, typed, shown, ran) ==
    [menu |-> menu, typed |-> typed, shown |-> shown, ran |-> ran]

\* main.py:286-335: main from its start to its return or to the menu loop.
\* load_tools raises when the tools directory is missing.
CliMain(how, io) ==
    /\ cli_pc = "start"
    /\ IF ~disk[ToolsRoot(meipass)].exists
       THEN /\ cli_pc' = "crashed"
            /\ UNCHANGED <<cli_tools, listed, sys_modules, launchVars, cfgVars>>
       ELSE LET tls == ResultOf(disk[ToolsRoot(meipass)].entries, sys_modules)
            IN  /\ cli_tools' = tls
                /\ sys_modules' = sys_modules \cup {tls[e[1]][e[2]] : e \in EntriesOf(tls)}
                /\ listed' = IF args_list THEN ListLines(tls) ELSE <<>>
                /\ CASE ModeOf(args_list, args_tool) = "list" ->
                            cli_pc' = "returned" /\ UNCHANGED <<launchVars, cfgVars>>
                     [] ModeOf(args_list, args_tool) = "tool" -> CliTool(tls, how, io)
                     [] OTHER -> cli_pc' = "menu" /\ UNCHANGED <<launchVars, cfgVars>>
    /\ cli_last' = ObserveCli("main", 0, NoPath,
                              IF launched' # launched THEN args_tool.value ELSE NoPath)
    /\ UNCHANGED <<args_list, args_tool, config0>>
    /\ UNCHANGED <<tools_dir, lt_pc, lt_cats, lt_cur, lt_files, tools, total_files, current,
                   loaded_files, failed_files, scanOrder, returned, disk, meipass,
                   modsAtCall, everFailed, nedits>>

\* main.py:142-153, 196-206 and 265-275: a menu launches the tool the user
\* chose; add_recent_tool comes before the look for main.
LaunchFromMenu(c, t, how, io) ==
    LET m == cli_tools[c][t]
    IN  /\ AddRecentTool(ToolPath(c, t), io) /\ ObserveCfg("add", io)
        /\ launched' = launched \cup {m}
        /\ IF RunsMain(m)
           THEN /\ invoked' = invoked \cup {m}
                /\ reported' = IF how = "value_error"
                               THEN reported \cup {[what |-> "invalid input", tool |-> m]}
                               ELSE reported
                /\ cli_pc' = IF how \in {"returned", "value_error"} THEN "menu" ELSE "crashed"
           ELSE /\ reported' = reported \cup {[what |-> "no main", tool |-> m]}
                /\ UNCHANGED <<invoked, cli_pc>>
        /\ UNCHANGED <<args_list, args_tool, cli_tools, listed, config0>>

\* main.py:94-157, browse_tools: the user picks a category, then a tool of it
MenuBrowse(c, t, how, io) ==
    /\ cli_pc = "menu"
    /\ c \in DOMAIN cli_tools /\ t \in DOMAIN cli_tools[c]
    /\ LaunchFromMenu(c, t, how, io)
    /\ cli_last' = ObserveCli("browse", 0, ToolPath(c, t), ToolPath(c, t))

\* main.py:165-176, the results of a search: the tools whose name, category or
\* description holds the keyword, letter case ignored
SearchResults(keyword) ==
    SelectSeq(ListLines(cli_tools),
              LAMBDA e : \/ Contains(Lower(e[2]), Lower(keyword))
                         \/ Contains(Lower(e[1]), Lower(keyword))
                         \/ Contains(Lower(Description(cli_tools[e[1]][e[2]])),
                                     Lower(keyword)))

\* main.py:160-210, search_tools: the user picks result n
MenuSearch(keyword, n, how, io) ==
    /\ cli_pc = "menu"
    /\ LET results == SearchResults(keyword)
       IN  /\ n \in 1..Len(results)
           /\ LaunchFromMenu(results[n][1], results[n][2], how, io)
           /\ cli_last' = ObserveCli("search", 0, ToolPath(results[n][1], results[n][2]),
                                     ToolPath(results[n][1], results[n][2]))

\* main.py:244-245: the recent path names a tool of the registry
KnownTool(p) ==
    /\ Len(Split(p)) = 2
    /\ Split(p)[1] \in DOMAIN cli_tools
    /\ Split(p)[2] \in DOMAIN cli_tools[Split(p)[1]]

\* main.py:240-253, valid_recent_tools: the recent paths that name a tool of
\* the registry, in the order of the recent list
ValidRecentTools ==
    LET valid == SelectSeq(DictGet(config_cache, "recent_tools", <<>>), KnownTool)
    IN  [i \in 1..Len(valid) |-> <<Split(valid[i])[1], Split(valid[i])[2]>>]

\* main.py:242-250, recent_data: the number printed beside a tool is its
\* place in the whole recent list (enumerate(recent_tools, 1)); the paths
\* that name no tool get no row. The path shown beside number n, if any.
ShownBeside(n) ==
    LET recent_tools == DictGet(config_cache, "recent_tools", <<>>)
    IN  IF n \in DOMAIN recent_tools /\ KnownTool(recent_tools[n])
        THEN recent_tools[n] ELSE NoPath

\* main.py:230-283, show_recent_tools: the user types n; the number is taken
\* as an index into valid_recent_tools, and a number beyond it does nothing
MenuRecent(n, how, io) ==
    /\ cli_pc = "menu"
    /\ LET valid_recent_tools == ValidRecentTools
       IN  /\ Len(valid_recent_tools) > 0
           /\ IF n \in 1..Len(valid_recent_tools)
              THEN /\ LaunchFromMenu(valid_recent_tools[n][1], valid_recent_tools[n][2],
                                     how, io)
                   /\ cli_last' = ObserveCli("recent", n, ShownBeside(n),
                                             ToolPath(valid_recent_tools[n][1],
                                                      valid_recent_tools[n][2]))
              ELSE /\ cli_last' = ObserveCli("recent", n, ShownBeside(n), NoPath)
                   /\ UNCHANGED <<args_list, args_tool, cli_pc, cli_tools, listed, config0,
                                  launchVars, cfgVars>>

\* main.py:374-376, choice 0
MenuQuit ==
    /\ cli_pc = "menu"
    /\ cli_pc' = "returned"
    /\ cli_last' = ObserveCli("quit", 0, NoPath, NoPath)
    /\ UNCHANGED <<args_list, args_tool, cli_tools, listed, config0, launchVars, cfgVars>>

\* The tools directory the launchers are run on: its registry is AppTools.
AppTree ==
    [e \in {CatOne, CatTwo} |->
        IF e = CatOne
        THEN DirOf([f \in {InitFile} |-> "other"], [f \in {ScriptA, ScriptB} |-> "ok"])
        ELSE DirOf([f \in {} |-> "other"],
                   [f \in {ScriptA, ScriptB} |-> IF f = ScriptA THEN "ok" ELSE "broken"])]

AppDisk == [r \in {DevRoot, FrozenRoot} |-> IF r = DevRoot THEN DirAt(AppTree) ELSE NoDir]

\* The values of --tool: none, a tool, a tool without main, a tool that failed
\* to load, a category alone, three parts, and the empty string.
ToolArgs ==
    {NoArg, Arg(<<>>), Arg(CatOne), Arg(ToolPath(CatOne, StripPy(ScriptA))),
     Arg(ToolPath(CatOne, StripPy(ScriptB))), Arg(ToolPath(CatTwo, StripPy(ScriptB))),
     Arg(ToolPath(CatOne, StripPy(ScriptA)) \o <<".", "a">>)}

\* A recent list read from a config file: a tool that is no longer there, then
\* a tool of the registry.
StaleRecent == <<ToolPath(CatTwo, StripPy(ScriptB)), ToolPath(CatTwo, StripPy(ScriptA))>>

\* config.py:47-73 and 147: the module has been imported in a process that
\* found a config file holding the recent list rl.
ConfigLoaded(rl) ==
    /\ config_cache = DictSet(DefaultConfig(<<>>), "recent_tools", rl)
    /\ recent_alias = FALSE
    /\ default_recent = <<>>
    /\ config_file = ConfigDoc(DictSet(DefaultConfig(<<>>), "recent_tools", rl))
    /\ cfg_ret = None
    /\ cfg_last = [op |-> "load", io |-> "none"]
    /\ last_use = EmptyDict

\* No console launcher has been started.
CliIdle ==
    /\ args_list = FALSE
    /\ args_tool = NoArg
    /\ cli_pc = "none"
    /\ cli_tools = EmptyDict
    /\ listed = <<>>
    /\ config0 = [cache |-> config_cache, file |-> config_file]
    /\ cli_last = ObserveCli("none", 0, NoPath, NoPath)

\* main has been called with some arguments.
CliInit ==
    /\ args_list \in BOOLEAN
    /\ args_tool \in ToolArgs
    /\ cli_pc = "start"
    /\ cli_tools = EmptyDict
    /\ listed = <<>>
    /\ config0 = [cache |-> config_cache, file |-> config_file]
    /\ cli_last = ObserveCli("none", 0, NoPath, NoPath)

\* The store's specifications never look at the tools directory.
NoDisk == [r \in {DevRoot, FrozenRoot} |-> NoDir]

Init ==
    /\ StoreInit /\ RaceInit /\ LoadIdle /\ GuiIdle /\ LaunchInit /\ ConfigInit /\ CliIdle
    /\ tools_dir = EmptyDict /\ disk = NoDisk /\ meipass = FALSE

\* The scan starts on any of the trees.
InitLoad ==
    /\ StoreInit /\ RaceInit /\ LoadIdle /\ GuiIdle /\ LaunchInit /\ ConfigInit /\ CliIdle
    /\ tools_dir = EmptyDict
    /\ meipass \in BOOLEAN
    /\ \E t \in Trees :
          disk = [r \in {DevRoot, FrozenRoot} |->
                     IF (r = FrozenRoot) = meipass THEN DirAt(t) ELSE DirAt(DecoyTree)]

\* The store with failing saves and process restarts.
Next ==
    \/ \E k \in Keys, v \in Values, t \in ToolNames, io \in IoOutcomes :
          /\ nsets < MaxSetsIo
          /\ SetData(k, v, t, io) /\ Observe("set", k, io)
          /\ UNCHANGED <<raceVars, loadVars, guiVars, launchVars, cfgVars, cliVars>>
    \/ \E k \in Keys : GetData(k) /\ Observe("get", k, "none") /\ UNCHANGED <<raceVars, loadVars, guiVars, launchVars, cfgVars, cliVars>>
    \/ \E k \in Keys, io \in IoOutcomes :
          /\ DeleteData(k, io)
          /\ Observe("delete", k, IF k \in DOMAIN shared_data THEN io ELSE "none")
          /\ UNCHANGED <<raceVars, loadVars, guiVars, launchVars, cfgVars, cliVars>>
    \/ \E io \in IoOutcomes :
          ClearAllData(io) /\ Observe("clear", NoKey, io) /\ UNCHANGED <<raceVars, loadVars, guiVars, launchVars, cfgVars, cliVars>>
    \/ \E k \in Keys : GetHistory(k) /\ Observe("history", k, "none") /\ UNCHANGED <<raceVars, loadVars, guiVars, launchVars, cfgVars, cliVars>>
    \/ Restart /\ Observe("load", NoKey, "none") /\ UNCHANGED <<raceVars, loadVars, guiVars, launchVars, cfgVars, cliVars>>

Spec == Init /\ [][Next]_vars

\* The n-th value set on a key in the long runs: every value of a key's history
\* is distinct, so that order and eviction show.
NextValue(k) ==
    IF k \in DOMAIN setLog /\ Len(setLog[k]) > 0 THEN setLog[k][Len(setLog[k])] + 1 ELSE 1

\* The store over long runs in which every save succeeds.
NextHistory ==
    \/ \E k \in Keys, t \in ToolNames :
          /\ nsets < MaxSets
          /\ SetData(k, NextValue(k), t, "ok")
          /\ UNCHANGED <<last, raceVars, loadVars, guiVars, launchVars, cfgVars, cliVars>>
    \/ \E k \in Keys : DeleteData(k, "ok") /\ UNCHANGED <<last, raceVars, loadVars, guiVars, launchVars, cfgVars, cliVars>>
    \/ ClearAllData("ok") /\ UNCHANGED <<last, raceVars, loadVars, guiVars, launchVars, cfgVars, cliVars>>
    \/ Restart /\ UNCHANGED <<last, raceVars, loadVars, guiVars, launchVars, cfgVars, cliVars>>

SpecHistory == Init /\ [][NextHistory]_vars

\* The values tools store and the tool that stores each.
Producers == {<<"v1", "toolA">>, <<"v2", "toolB">>}

\* The store used by two tools, with failing saves and process restarts.
NextProducers ==
    \/ \E k \in Keys, vt \in Producers, io \in IoOutcomes :
          /\ nsets < MaxProducerSets
          /\ SetData(k, vt[1], vt[2], io) /\ Observe("set", k, io)
          /\ UNCHANGED <<raceVars, loadVars, guiVars, launchVars, cfgVars, cliVars>>
    \/ \E k \in Keys, io \in IoOutcomes :
          /\ DeleteData(k, io)
          /\ Observe("delete", k, IF k \in DOMAIN shared_data THEN io ELSE "none")
          /\ UNCHANGED <<raceVars, loadVars, guiVars, launchVars, cfgVars, cliVars>>
    \/ \E io \in IoOutcomes :
          /\ ClearAllData(io) /\ Observe("clear", NoKey, io)
          /\ UNCHANGED <<raceVars, loadVars, guiVars, launchVars, cfgVars, cliVars>>
    \/ /\ Restart /\ Observe("load", NoKey, "none")
       /\ UNCHANGED <<raceVars, loadVars, guiVars, launchVars, cfgVars, cliVars>>

SpecProducers == Init /\ [][NextProducers]_vars

\* Two processes writing the store file, every write succeeding.
NextRace ==
    \/ \E p \in Procs : RaceStart(p) /\ UNCHANGED <<storeVars, loadVars, guiVars, launchVars, cfgVars, cliVars>>
    \/ \E p \in Procs, k \in Keys, v \in Values, t \in ToolNames :
          nrace < MaxRaceSets /\ RaceSetOpen(p, k, v, t) /\ UNCHANGED <<storeVars, loadVars, guiVars, launchVars, cfgVars, cliVars>>
    \/ \E p \in Procs : RaceSetWrite(p) /\ UNCHANGED <<storeVars, loadVars, guiVars, launchVars, cfgVars, cliVars>>

SpecRace == Init /\ [][NextRace]_vars

\* load_tools, run once on each tree.
NextLoad ==
    \/ LoadToolsCall /\ UNCHANGED <<storeVars, file, raceVars, guiVars, launchVars, cfgVars, cliVars>>
    \/ \E c \in DOMAIN tools_dir : ScanCategory(c) /\ UNCHANGED <<storeVars, file, raceVars, guiVars, launchVars, cfgVars, cliVars>>
    \/ \E f \in lt_files : ScanFile(f) /\ UNCHANGED <<storeVars, file, raceVars, guiVars, launchVars, cfgVars, cliVars>>
    \/ ScanReturn /\ UNCHANGED <<storeVars, file, raceVars, guiVars, launchVars, cfgVars, cliVars>>

SpecLoad == InitLoad /\ [][NextLoad]_vars

\* The trees of the runs in which load_tools is called again and again.
ReloadTrees ==
    {[e \in {CatOne} |->
        DirOf([f \in {NotesFile} |-> "other"],
              [f \in {ScriptA, ScriptB} |-> IF f = ScriptA THEN a1 ELSE b1])] :
     a1 \in ScriptStates, b1 \in ScriptStates}

InitReload ==
    /\ StoreInit /\ RaceInit /\ LoadIdle /\ GuiIdle /\ LaunchInit /\ ConfigInit /\ CliIdle
    /\ tools_dir = EmptyDict
    /\ meipass = FALSE
    /\ \E t \in ReloadTrees :
          disk = [r \in {DevRoot, FrozenRoot} |-> IF r = DevRoot THEN DirAt(t) ELSE NoDir]

\* load_tools called repeatedly in one process, the scripts changing between calls.
NextReload ==
    \/ LoadToolsCall /\ UNCHANGED <<storeVars, file, raceVars, guiVars, launchVars, cfgVars, cliVars>>
    \/ \E c \in DOMAIN tools_dir : ScanCategory(c) /\ UNCHANGED <<storeVars, file, raceVars, guiVars, launchVars, cfgVars, cliVars>>
    \/ \E f \in lt_files : ScanFile(f) /\ UNCHANGED <<storeVars, file, raceVars, guiVars, launchVars, cfgVars, cliVars>>
    \/ ScanReturn /\ UNCHANGED <<storeVars, file, raceVars, guiVars, launchVars, cfgVars, cliVars>>
    \/ CallerContinues /\ UNCHANGED <<storeVars, file, raceVars, guiVars, launchVars, cfgVars, cliVars>>
    \/ \E c \in {CatOne}, f \in {ScriptA, ScriptB}, st \in ScriptStates :
          /\ nedits < MaxEdits
          /\ EditScript(c, f, st)
          /\ UNCHANGED <<storeVars, file, raceVars, guiVars, launchVars, cfgVars, cliVars>>

SpecReload == InitReload /\ [][NextReload]_vars

InitGui ==
    /\ StoreInit /\ RaceInit /\ LoadIdle /\ GuiInit /\ LaunchInit /\ ConfigInit /\ CliIdle
    /\ tools_dir = EmptyDict /\ disk = NoDisk /\ meipass = FALSE

\* The GUI: the user's events, the worker threads' steps and the handling of
\* their signals, in any order.
NextGui ==
    \/ \E r \in 1..Len(tool_list) :
          SelectTool(r) /\ UNCHANGED <<storeVars, file, raceVars, loadVars, cfgVars, cliVars>>
    \/ \E cat \in {AllTools} \cup AppCategories :
          ChangeCategory(cat) /\ UNCHANGED <<storeVars, file, raceVars, loadVars, cfgVars, cliVars>>
    \/ \E text \in SearchTexts :
          EditSearch(text) /\ UNCHANGED <<storeVars, file, raceVars, loadVars, cfgVars, cliVars>>
    \/ Len(threads) < MaxRuns /\ RunTool /\ UNCHANGED <<storeVars, file, raceVars, loadVars, cfgVars, cliVars>>
    \/ StopTool /\ UNCHANGED <<storeVars, file, raceVars, loadVars, cfgVars, cliVars>>
    \/ \E i \in 1..Len(threads) :
          ThreadRun(i) /\ UNCHANGED <<storeVars, file, raceVars, loadVars, cfgVars, cliVars>>
    \/ \E i \in 1..Len(threads), how \in MainOutcomes :
          MainEnds(i, how) /\ UNCHANGED <<storeVars, file, raceVars, loadVars, cfgVars, cliVars>>
    \/ ToolFinished /\ UNCHANGED <<storeVars, file, raceVars, loadVars, cfgVars, cliVars>>

SpecGui == InitGui /\ [][NextGui]_vars

\* The console launcher, started with any arguments on a fresh or a loaded
\* configuration, with or without its tools directory.
InitCli ==
    /\ StoreInit /\ RaceInit /\ LoadIdle /\ GuiIdle /\ LaunchInit
    /\ ConfigInit \/ ConfigLoaded(StaleRecent)
    /\ CliInit
    /\ tools_dir = EmptyDict /\ meipass = FALSE
    /\ disk \in {AppDisk, NoDisk}

\* The outcomes of the config writes the launcher makes: the write succeeds,
\* or it fails after the file was opened.
CliIo == {"ok", "write_error"}

\* main, then the user's choices in the menu, every tool's main ending in any
\* way and every config write succeeding or failing.
NextCli ==
    \/ \E how \in ConsoleOutcomes, io \in CliIo :
          CliMain(how, io) /\ UNCHANGED <<storeVars, file, raceVars, guiVars>>
    \/ \E c \in AppCategories, t \in {StripPy(ScriptA), StripPy(ScriptB)},
          how \in ConsoleOutcomes, io \in CliIo :
          /\ MenuBrowse(c, t, how, io)
          /\ UNCHANGED <<storeVars, file, raceVars, loadVars, guiVars>>
    \/ \E keyword \in SearchTexts, n \in 1..Len(AppTools),
          how \in ConsoleOutcomes, io \in CliIo :
          /\ MenuSearch(keyword, n, how, io)
          /\ UNCHANGED <<storeVars, file, raceVars, loadVars, guiVars>>
    \/ \E n \in DOMAIN DictGet(config_cache, "recent_tools", <<>>),
          how \in ConsoleOutcomes, io \in CliIo :
          /\ MenuRecent(n, how, io)
          /\ UNCHANGED <<storeVars, file, raceVars, loadVars, guiVars>>
    \/ MenuQuit /\ UNCHANGED <<storeVars, file, raceVars, loadVars, guiVars>>

SpecCli == InitCli /\ [][NextCli]_vars

\* A process runs one launcher: the console launcher or the GUI.
InitLaunch == InitCli \/ InitGui

\* The GUI's events happen in the process that built the window.
NextLaunch == NextCli \/ (cli_pc = "none" /\ NextGui /\ Len(threads') <= MaxLaunchRuns)

SpecLaunch == InitLaunch /\ [][NextLaunch]_vars

\* The store file a process finds when it starts: none, a truncated one, one
\* it may not read, one the store wrote, one another program wrote.
StartFiles ==
    {NoFile, PartialFile, UnreadableFile, ForeignFile,
     Doc([k \in {"k1"} |-> Entry("v1", "toolA", "")],
         [k \in {"k1"} |-> <<HistEntry("v1", "toolA")>>])}

\* data_sharer.py:22-30 and 177: the module has been imported, DataSharer()
\* has loaded the file the process found.
StoreLoaded ==
    /\ file \in StartFiles
    /\ shared_data = FreshLoad(file).shared_data
    /\ data_history = FreshLoad(file).data_history
    /\ ret = None
    /\ last = [op |-> "load", key |-> NoKey, io |-> "none"]
    /\ nsets = 0
    /\ setLog = [k \in DOMAIN data_history |-> ValuesOf(data_history[k])]
    /\ persisted = file
    /\ allOk = TRUE

\* A process that finds any store file, with or without its tools directory.
InitRobust ==
    /\ StoreLoaded /\ RaceInit /\ LoadIdle /\ GuiIdle /\ LaunchInit /\ ConfigInit /\ CliIdle
    /\ tools_dir = EmptyDict /\ meipass = FALSE
    /\ disk \in {AppDisk, NoDisk}

\* The launcher calls load_tools when it starts (main.py:300); the tools call
\* the store afterwards, every write succeeding or failing.
NextRobust ==
    \/ /\ last.op = "load" /\ returned = EmptyDict
       /\ LoadToolsCall
       /\ UNCHANGED <<storeVars, file, raceVars, guiVars, launchVars, cfgVars, cliVars>>
    \/ \E c \in DOMAIN tools_dir :
          ScanCategory(c) /\ UNCHANGED <<storeVars, file, raceVars, guiVars, launchVars, cfgVars, cliVars>>
    \/ \E f \in lt_files :
          ScanFile(f) /\ UNCHANGED <<storeVars, file, raceVars, guiVars, launchVars, cfgVars, cliVars>>
    \/ ScanReturn /\ UNCHANGED <<storeVars, file, raceVars, guiVars, launchVars, cfgVars, cliVars>>
    \/ CallerContinues /\ UNCHANGED <<storeVars, file, raceVars, guiVars, launchVars, cfgVars, cliVars>>
    \/ \E k \in Keys, v \in Values, t \in ToolNames, io \in IoOutcomes :
          /\ lt_pc = "idle" /\ nsets < MaxRobustSets
          /\ SetData(k, v, t, io) /\ Observe("set", k, io)
          /\ UNCHANGED <<raceVars, loadVars, guiVars, launchVars, cfgVars, cliVars>>
    \/ \E k \in Keys :
          /\ lt_pc = "idle"
          /\ GetData(k) /\ Observe("get", k, "none")
          /\ UNCHANGED <<raceVars, loadVars, guiVars, launchVars, cfgVars, cliVars>>
    \/ \E k \in Keys, io \in IoOutcomes :
          /\ lt_pc = "idle"
          /\ DeleteData(k, io)
          /\ Observe("delete", k, IF k \in DOMAIN shared_data THEN io ELSE "none")
          /\ UNCHANGED <<raceVars, loadVars, guiVars, launchVars, cfgVars, cliVars>>
    \/ \E io \in IoOutcomes :
          /\ lt_pc = "idle"
          /\ ClearAllData(io) /\ Observe("clear", NoKey, io)
          /\ UNCHANGED <<raceVars, loadVars, guiVars, launchVars, cfgVars, cliVars>>
    \/ \E k \in Keys :
          /\ lt_pc = "idle"
          /\ GetHistory(k) /\ Observe("history", k, "none")
          /\ UNCHANGED <<raceVars, loadVars, guiVars, launchVars, cfgVars, cliVars>>

SpecRobust == InitRobust /\ [][NextRobust]_vars

\* The values set_config is called with.
SetInputs == {<<"theme", "dark">>, <<"max_recent_tools", 1>>}

\* The tools add_recent_tool is called with.
RecentInputs == {AppTools[1].path, AppTools[2].path}

\* The configuration calls in any order, every write succeeding or failing.
NextConfig ==
    \/ \E io \in IoOutcomes :
          /\ SaveConfig(io) /\ ObserveCfg("save", io)
          /\ UNCHANGED <<storeVars, file, raceVars, loadVars, guiVars, launchVars, cliVars>>
    \/ \E kv \in SetInputs, io \in IoOutcomes :
          /\ SetConfig(kv[1], kv[2], io) /\ ObserveCfg("set", io)
          /\ UNCHANGED <<storeVars, file, raceVars, loadVars, guiVars, launchVars, cliVars>>
    \/ \E t \in RecentInputs, io \in IoOutcomes :
          /\ AddRecentTool(t, io) /\ ObserveCfg("add", io)
          /\ UNCHANGED <<storeVars, file, raceVars, loadVars, guiVars, launchVars, cliVars>>
    \/ \E io \in IoOutcomes :
          /\ ResetConfig(io) /\ ObserveCfg("reset", io)
          /\ UNCHANGED <<storeVars, file, raceVars, loadVars, guiVars, launchVars, cliVars>>
    \/ \E k \in ConfigKeys \ {"recent_tools"} :
          /\ GetConfig(k) /\ ObserveCfg("get", "none")
          /\ UNCHANGED <<storeVars, file, raceVars, loadVars, guiVars, launchVars, cliVars>>
    \/ /\ GetRecentTools /\ ObserveCfg("recent", "none")
       /\ UNCHANGED <<storeVars, file, raceVars, loadVars, guiVars, launchVars, cliVars>>

SpecConfig == Init /\ [][NextConfig]_vars

\* The number of add_recent_tool calls made so far.
AddsMade ==
    IF DOMAIN last_use = {} THEN 0
    ELSE LET t == CHOOSE x \in DOMAIN last_use :
                      \A y \in DOMAIN last_use : last_use[y] <= last_use[x]
         IN  last_use[t]

\* The n-th tool that is used for the first time.
RecentName(n) == ToolPath(CatOne, <<n>>)

\* The tools the next add_recent_tool is called with: one never used before,
\* the oldest of the list, the second of the list.
RecentChoices ==
    LET lst == DictGet(config_cache, "recent_tools", <<>>)
    IN  {RecentName(Cardinality(DOMAIN last_use) + 1)}
            \cup {lst[i] : i \in {2, Len(lst)} \cap DOMAIN lst}

\* add_recent_tool called again and again from the empty list, its write
\* succeeding or failing.
NextRecent ==
    \E t \in RecentChoices, io \in {"ok", "write_error"} :
        /\ AddsMade < MaxAdds
        /\ AddRecentTool(t, io)
        /\ cfg_last' = [op |-> "add", io |-> io]
        /\ last_use' = DictSet(last_use, t, AddsMade + 1)
        /\ UNCHANGED <<storeVars, file, raceVars, loadVars, guiVars, launchVars, cliVars>>

SpecRecent == Init /\ [][NextRecent]_vars

\* dict.update
DictUpdate(d, u) == [k \in DOMAIN d \cup DOMAIN u |-> IF k \in DOMAIN u THEN u[k] ELSE d[k]]

\* faulty variant: the defaults are laid over what the file holds
LoadedConfig_defaultsWin(f) ==
    IF f.kind = "doc" THEN DictUpdate(JsonLoadObject(f.config), DefaultConfig(<<>>))
    ELSE DefaultConfig(<<>>)

\* config.py:55-64: what load_config builds in a new process from a config
\* file that exists: a copy of the defaults updated with the file's object,
\* the defaults alone when the file cannot be parsed
LoadedConfig(f) ==
    IF f.kind = "doc" THEN DictUpdate(DefaultConfig(<<>>), JsonLoadObject(f.config))
    ELSE DefaultConfig(<<>>)

\* The names of the file's object.
FileKeys(f) == IF f.kind = "doc" THEN {m[1] : m \in f.config} ELSE {}

\* A config file the user wrote: it names one item.
SparseFile == [kind |-> "doc", config |-> JsonDumpObject([k \in {"theme"} |-> "light"])]

\* config.py:47-73 and 147: the module has been imported in a process that
\* found the config file f.
ConfigStarted(f) ==
    /\ config_cache = LoadedConfig(f)
    /\ recent_alias = ("recent_tools" \notin FileKeys(f))
    /\ default_recent = <<>>
    /\ config_file = f
    /\ cfg_ret = None
    /\ cfg_last = [op |-> "load", io |-> "none"]
    /\ last_use = EmptyDict

\* A new process imports the module: DEFAULT_CONFIG is as written in the
\* source and load_config reads the file the last process left.
RestartConfig ==
    /\ config_cache' = LoadedConfig(config_file)
    /\ recent_alias' = ("recent_tools" \notin FileKeys(config_file))
    /\ default_recent' = <<>>
    /\ cfg_ret' = None
    /\ cfg_last' = [op |-> "load", io |-> "none"]
    /\ UNCHANGED <<config_file, last_use>>

\* observer: the set_config call that has just been made
ObserveSet(key, value, io) ==
    /\ cfg_last' = [op |-> "set", io |-> io, key |-> key, value |-> value]
    /\ UNCHANGED last_use

\* A process that found a config file of its own making or of the user's.
InitPersist ==
    /\ StoreInit /\ RaceInit /\ LoadIdle /\ GuiIdle /\ LaunchInit
    /\ \E f \in {ConfigDoc(DefaultConfig(<<>>)), SparseFile} : ConfigStarted(f)
    /\ CliIdle
    /\ tools_dir = EmptyDict /\ disk = NoDisk /\ meipass = FALSE

\* Config calls and new processes, every write succeeding or failing.
NextPersist ==
    \/ \E kv \in SetInputs, io \in IoOutcomes :
          /\ SetConfig(kv[1], kv[2], io) /\ ObserveSet(kv[1], kv[2], io)
          /\ UNCHANGED <<storeVars, file, raceVars, loadVars, guiVars, launchVars, cliVars>>
    \/ \E t \in RecentInputs, io \in IoOutcomes :
          /\ AddRecentTool(t, io) /\ ObserveCfg("add", io)
          /\ UNCHANGED <<storeVars, file, raceVars, loadVars, guiVars, launchVars, cliVars>>
    \/ \E k \in ConfigKeys \ {"recent_tools"} :
          /\ GetConfig(k) /\ ObserveCfg("get", "none")
          /\ UNCHANGED <<storeVars, file, raceVars, loadVars, guiVars, launchVars, cliVars>>
    \/ /\ RestartConfig
       /\ UNCHANGED <<storeVars, file, raceVars, loadVars, guiVars, launchVars, cliVars>>

SpecPersist == InitPersist /\ [][NextPersist]_vars

\* ------------------------------------------------------------ properties
Min(a, b) == IF a < b THEN a ELSE b

\* The last n elements of s.
LastN(s, n) == SubSeq(s, Len(s) - n + 1, Len(s))

MutatingOps == {"set", "delete", "clear"}

\* C1: right after set_data(k, v, ...) has returned, True or False, get_data(k)
\* returns v, whatever set, delete, clear calls and restarts came before.
C1_SetThenGet ==
    last.op = "set" =>
        get_data(shared_data, last.key) = setLog[last.key][Len(setLog[last.key])]

\* C1 witness: a set on a key that already held the other value, whose save
\* failed, is read back.
C1_Witness ==
    /\ last.op = "set"
    /\ ret = FALSE
    /\ Len(setLog[last.key]) >= 2
    /\ setLog[last.key][Len(setLog[last.key]) - 1] = "v1"
    /\ get_data(shared_data, last.key) = "v2"

\* C2: after any sequence of set_data, delete_data, clear_all_data calls and
\* reloads, the history list of every key has at most 10 entries.
C2_HistoryBounded ==
    \A k \in DOMAIN data_history : Len(data_history[k]) <= HistoryLimit

\* C2 witness: eleven sets on each key, after which each history is 10 long.
C2_Witness ==
    \A k \in Keys :
        /\ k \in DOMAIN data_history
        /\ Len(setLog[k]) = HistoryLimit + 1
        /\ Len(data_history[k]) = HistoryLimit

\* C3: after n set_data calls on a key whose history started empty, get_history
\* holds exactly the last min(n, 10) values in the order they were set.
C3_HistoryFifo ==
    /\ DOMAIN data_history = DOMAIN setLog
    /\ \A k \in Keys :
          ValuesOf(get_history(data_history, k)) =
              IF k \in DOMAIN setLog
              THEN LastN(setLog[k], Min(Len(setLog[k]), HistoryLimit))
              ELSE <<>>

\* C3 witness: the values 1..11 were set on a key in this order: the history
\* holds 2..11 in this order, the first value set is the one evicted.
C3_Witness ==
    \E k \in Keys :
        /\ k \in DOMAIN setLog
        /\ setLog[k] = [i \in 1..(HistoryLimit + 1) |-> i]
        /\ ValuesOf(get_history(data_history, k)) = [i \in 1..HistoryLimit |-> i + 1]

\* C4: delete_data(k) on an absent key returns False and changes neither the
\* in-memory state nor the file; on a present key it removes k, so that
\* get_data(k) is None, and leaves every other key's current entry as it was.
C4_Delete ==
    [][\A k \in Keys :
         (last'.op = "delete" /\ last'.key = k) =>
            IF k \in DOMAIN shared_data
            THEN /\ k \notin DOMAIN shared_data'
                 /\ get_data(shared_data', k) = None
                 /\ \A j \in Keys \ {k} :
                       /\ (j \in DOMAIN shared_data') = (j \in DOMAIN shared_data)
                       /\ j \in DOMAIN shared_data => shared_data'[j] = shared_data[j]
            ELSE /\ ret' = FALSE
                 /\ shared_data' = shared_data
                 /\ data_history' = data_history
                 /\ file' = file]_<<last, vars>>

\* C4 witness: a present key has been deleted and the other key is still there.
C4_Witness ==
    /\ last.op = "delete"
    /\ ret = TRUE
    /\ last.key \notin DOMAIN shared_data
    /\ \E j \in Keys \ {last.key} : get_data(shared_data, j) = "v2"

\* C5: while every mutating call of the process has returned True, a new process
\* loading the file obtains exactly the in-memory current mapping.
C5_RoundTrip ==
    allOk => FreshLoad(file).shared_data = shared_data

\* C5 witness: two keys with different values were set, every call succeeded.
C5_Witness ==
    /\ allOk
    /\ last.op = "set"
    /\ DOMAIN shared_data = Keys
    /\ get_data(shared_data, "k1") = "v1"
    /\ get_data(shared_data, "k2") = "v2"

\* C6 as claimed: in every reachable state the file holds the complete document
\* of the last save that succeeded.
C6_AllOrNothing == file = persisted

\* C6 amended: the file holds the last successfully saved document or, after a
\* save that failed once the file was opened for writing, a partial one; a call
\* whose save returned True leaves the document of the in-memory state.
C6_SaveOutcome ==
    /\ file = persisted \/ file = PartialFile
    /\ (last.op \in MutatingOps /\ last.io # "none" /\ ret = TRUE) =>
          file = Doc(shared_data, data_history)

\* C6 witness: a save failed midway and destroyed a document saved before.
C6_Witness ==
    /\ last.op = "set"
    /\ ret = FALSE
    /\ file = PartialFile
    /\ persisted.kind = "doc"
    /\ FreshLoad(file).shared_data = EmptyDict

\* C7: when the save of set_data, delete_data or clear_all_data fails, the call
\* returns False, the in-memory mapping and history hold the call's effect, and
\* the file holds nothing of it.
C7_FailedSave ==
    [][(last'.op \in MutatingOps /\ last'.io \in {"open_error", "write_error"}) =>
         /\ ret' = FALSE
         /\ file' \in {file, PartialFile}
         /\ last'.op = "set" =>
               /\ get_data(shared_data', last'.key)
                     = setLog'[last'.key][Len(setLog'[last'.key])]
               /\ data_history'[last'.key]
                     = LastN(Append(get_history(data_history, last'.key),
                                    data_history'[last'.key][Len(data_history'[last'.key])]),
                             Min(Len(get_history(data_history, last'.key)) + 1, HistoryLimit))
               /\ data_history'[last'.key][Len(data_history'[last'.key])].value
                     = setLog'[last'.key][Len(setLog'[last'.key])]
               /\ file' # Doc(shared_data', data_history')
         /\ last'.op = "delete" =>
               /\ last'.key \in DOMAIN shared_data
               /\ last'.key \notin DOMAIN shared_data'
               /\ file' # Doc(shared_data', data_history')
         /\ last'.op = "clear" => shared_data' = EmptyDict]_<<last, vars>>

\* C7 witness: a set whose save failed: memory holds the new value, the file the
\* document saved before.
C7_Witness ==
    /\ last.op = "set"
    /\ last.io = "open_error"
    /\ ret = FALSE
    /\ get_data(shared_data, last.key) = "v2"
    /\ file.kind = "doc"
    /\ get_data(FreshLoad(file).shared_data, last.key) = "v1"

\* C8: clear_all_data empties the current mapping and leaves every history as it
\* was; get_data, delete_data, clear_all_data and get_history never change a
\* history; set_data changes only its own key's history, appending to what was
\* there.
C8_HistoryFrame ==
    [][/\ last'.op \in {"get", "delete", "clear", "history"} =>
             data_history' = data_history
       /\ last'.op = "clear" =>
             \A k \in Keys : get_data(shared_data', k) = None
       /\ last'.op = "set" =>
             /\ \A j \in Keys \ {last'.key} :
                   get_history(data_history', j) = get_history(data_history, j)
             /\ \E e \in {HistEntry(v, t) : v \in Values, t \in ToolNames} :
                   get_history(data_history', last'.key)
                      = LastN(Append(get_history(data_history, last'.key), e),
                              Min(Len(get_history(data_history, last'.key)) + 1,
                                  HistoryLimit))]_<<last, vars>>

\* C8 witness: the mapping has been cleared and a history of two entries remains.
C8_Witness ==
    /\ last.op = "clear"
    /\ shared_data = EmptyDict
    /\ \E k \in Keys : Len(get_history(data_history, k)) >= 2

\* C9: two processes that each loaded the store can lose an update without any
\* call failing. Every completed save leaves exactly the document of the saving
\* process's own globals: nothing another process wrote since that process
\* loaded survives it.
C9_LastWriterWins ==
    (file.kind = "doc" /\ lastWriter # NoProc) =>
        file = Doc(pmem[lastWriter].shared_data, pmem[lastWriter].data_history)

\* C9 witness: both processes' set_data calls, on different keys, returned True,
\* no call is in progress, and the file lacks the key one of them wrote.
C9_LostUpdate ==
    \E p \in Procs, q \in Procs :
        \E kp \in psaved[p], kq \in psaved[q] :
            /\ p # q
            /\ kp # kq
            /\ \A r \in Procs : ppc[r] = "idle"
            /\ file.kind = "doc"
            /\ kq \in DOMAIN FreshLoad(file).shared_data
            /\ kp \notin DOMAIN FreshLoad(file).shared_data
            /\ kp \notin DOMAIN FreshLoad(file).data_history

\* C10: an import failure leaves out the failing tool only: when load_tools
\* returns, every category is in the mapping, every script that imports is in
\* it under its category, and no script whose import raised is.
C10_FailureSkipped ==
    lt_pc = "done" =>
        \A c \in DOMAIN tools_dir :
            IsCategory(tools_dir, c) =>
                /\ c \in DOMAIN returned
                /\ \A f \in DOMAIN tools_dir[c].files :
                      IsToolFile(f) =>
                          IF tools_dir[c].files[f] = "ok"
                          THEN /\ StripPy(f) \in DOMAIN returned[c]
                               /\ returned[c][StripPy(f)] = ModulePath(c, StripPy(f))
                          ELSE StripPy(f) \notin DOMAIN returned[c]

\* C10 witness: the first import attempted failed; a script of the same category
\* and one of another category were imported after it and are in the mapping.
C10_Witness ==
    /\ lt_pc = "done"
    /\ Len(scanOrder) >= 3
    /\ scanOrder[1].outcome = "failed"
    /\ \E i \in 2..Len(scanOrder), j \in 2..Len(scanOrder) :
          /\ scanOrder[i].outcome = "loaded"
          /\ scanOrder[i].category = scanOrder[1].category
          /\ StripPy(scanOrder[i].file) \in DOMAIN returned[scanOrder[i].category]
          /\ scanOrder[j].outcome = "loaded"
          /\ scanOrder[j].category # scanOrder[1].category
          /\ StripPy(scanOrder[j].file) \in DOMAIN returned[scanOrder[j].category]

\* The (category, file) pairs a set of directories holds.
PairsOf(dir, cats) == UNION {{<<c, f>> : f \in DOMAIN dir[c].files} : c \in cats}

\* The scripts of the scanned tree: the .py files of its categories.
ScriptsOf(dir) ==
    {p \in PairsOf(dir, {c \in DOMAIN dir : IsCategory(dir, c)}) : IsToolFile(p[2])}

\* C11: for a tree holding N scripts that import and M whose import raises,
\* load_tools returns a mapping with N entries in total and counts M failures,
\* and loaded + failed is the number of scripts the first pass counted.
C11_Counts ==
    lt_pc = "done" =>
        LET good == {p \in ScriptsOf(tools_dir) : tools_dir[p[1]].files[p[2]] = "ok"}
            bad == ScriptsOf(tools_dir) \ good
        IN  /\ Cardinality(EntriesOf(returned)) = Cardinality(good)
            /\ loaded_files = Cardinality(good)
            /\ failed_files = Cardinality(bad)
            /\ loaded_files + failed_files = total_files

\* C11 witness: a tree with three scripts that import and two that do not.
C11_Witness ==
    /\ lt_pc = "done"
    /\ Cardinality(EntriesOf(returned)) = 3
    /\ failed_files = 2
    /\ total_files = 5

\* A name that starts with n underscores.
Underscored(s, n) == Len(s) >= n /\ \A i \in 1..n : s[i] = "_"

\* A name that ends in ".py".
PySource(f) == Len(f) >= 3 /\ f[Len(f) - 2] = "." /\ f[Len(f) - 1] = "p" /\ f[Len(f)] = "y"

\* The tree at the root the claim names: the bundle's when sys._MEIPASS is set.
ClaimedTree ==
    IF meipass THEN disk[<<"sys._MEIPASS", "python_toolbox", "tools">>].entries
    ELSE disk[<<"dirname(__file__)", "tools">>].entries

\* The scan rule with the names starting with n underscores left out: the
\* categories are the subdirectories of the root, the tools considered are the
\* .py files of the categories, each is imported as category.toolname and
\* stored under tools[category][toolname] when the import succeeds.
ScanRule(n) ==
    lt_pc = "done" =>
        LET dir == ClaimedTree
            cats == {c \in DOMAIN dir : dir[c].isdir /\ ~Underscored(c, n)}
            considered == {p \in PairsOf(dir, cats) : PySource(p[2]) /\ ~Underscored(p[2], n)}
            attempts == {scanOrder[i] : i \in 1..Len(scanOrder)}
            name(f) == SubSeq(f, 1, Len(f) - 3)
        IN  /\ DOMAIN returned = cats
            /\ {<<a.category, a.file>> : a \in attempts} = considered
            /\ EntriesOf(returned)
                  = {<<a.category, name(a.file)>> : a \in {b \in attempts : b.outcome = "loaded"}}
            /\ \A e \in EntriesOf(returned) : returned[e[1]][e[2]] = <<e[1], e[2]>>

\* C12 as claimed: private names (one leading underscore) and dunder names are
\* left out of the categories, private names out of the tools.
C12_PrivateExcluded == ScanRule(1)

\* C12 amended: only the names that start with two underscores are left out; a
\* directory or script whose name starts with one underscore is a category or
\* a tool like any other.
C12_DunderExcluded == ScanRule(2)

\* C12 witness: a scan of the bundle's root that returned the category and the
\* tool named with one underscore and left out the dunder directory.
C12_Witness ==
    /\ lt_pc = "done"
    /\ meipass
    /\ PrivDir \in DOMAIN returned
    /\ CacheDir \notin DOMAIN returned
    /\ <<CatOne, StripPy(PrivFile)>> \in EntriesOf(returned)
    /\ <<CatOne, StripPy(InitFile)>> \notin EntriesOf(returned)
    /\ <<CatTwo, StripPy(ScriptB)>> \notin EntriesOf(returned)

\* C13 as claimed: the mapping a call returns depends on the tree and the
\* scripts at the time of the call alone.
C13_NoCache ==
    lt_pc = "done" => returned = ResultOf(tools_dir, {})

\* C13 amended: every call lists the directories anew, but a script imported
\* earlier in the process is returned from sys.modules as it was imported,
\* also when its file has since become broken; a script is in the mapping
\* exactly when its file is there and it imports now or was imported before.
C13_ImportCache ==
    lt_pc = "done" => returned = ResultOf(tools_dir, modsAtCall)

\* C13 witness: a later call returned a script that is broken now and was
\* imported before, and a script that failed before and has been fixed.
C13_Witness ==
    /\ lt_pc = "done"
    /\ \E f \in {ScriptA, ScriptB}, g \in {ScriptA, ScriptB} :
          /\ {f, g} \subseteq DOMAIN tools_dir[CatOne].files
          /\ tools_dir[CatOne].files[f] = "broken"
          /\ ModulePath(CatOne, StripPy(f)) \in modsAtCall
          /\ StripPy(f) \in DOMAIN returned[CatOne]
          /\ tools_dir[CatOne].files[g] = "ok"
          /\ ModulePath(CatOne, StripPy(g)) \in everFailed
          /\ StripPy(g) \in DOMAIN returned[CatOne]

\* C14: in the GUI at most one ToolRunnerThread is executing a tool's main at
\* any time, whatever the user selects, changes, types or clicks.
C14_OneRunner ==
    Cardinality({i \in 1..Len(threads) : threads[i].phase = "main"}) <= 1

InRegistry(parts) ==
    /\ Len(parts) = 2
    /\ parts[1] \in DOMAIN cli_tools
    /\ parts[2] \in DOMAIN cli_tools[parts[1]]

\* main has run with --tool X and without --list, on a tools directory that
\* exists.
ToolModeDone ==
    /\ cli_pc \in {"menu", "returned", "crashed"}
    /\ ~args_list /\ args_tool.given
    /\ disk[ToolsRoot(meipass)].exists

\* C16: with --tool X a tool's main runs exactly when X is category.name, the
\* pair is in the registry and the module has a main; an X that does not split
\* into two parts gets a format error, a pair that is not in the registry a
\* not-found error, and in both cases nothing runs, the config is as it was
\* and main returns without entering the menu. (Violated: an empty X is
\* taken as no --tool at all, and the menu is entered.)
C16_ToolArg ==
    ToolModeDone =>
        LET parts == Split(args_tool.value)
        IN  /\ invoked # {} <=> (InRegistry(parts) /\ HasMain(cli_tools[parts[1]][parts[2]]))
            /\ invoked # {} => invoked = {cli_tools[parts[1]][parts[2]]}
            /\ Len(parts) # 2 => [what |-> "format error", tool |-> <<>>] \in reported
            /\ (Len(parts) = 2 /\ ~InRegistry(parts)) =>
                   [what |-> "not found", tool |-> <<>>] \in reported
            /\ ~InRegistry(parts) =>
                   /\ invoked = {}
                   /\ config_cache = config0.cache /\ config_file = config0.file
                   /\ cli_pc = "returned"

\* C17: with --list every (category, tool) pair of the registry is printed
\* exactly once, no main runs, the config and its recent list are as they
\* were, and main returns without entering the menu, whatever --tool is.
C17_ListOnly ==
    (args_list /\ cli_pc \notin {"none", "start"} /\ disk[ToolsRoot(meipass)].exists) =>
        /\ cli_pc = "returned"
        /\ \A e \in EntriesOf(cli_tools) :
              Cardinality({i \in DOMAIN listed : listed[i] = e}) = 1
        /\ \A i \in DOMAIN listed : listed[i] \in EntriesOf(cli_tools)
        /\ invoked = {} /\ launched = {} /\ reported = {}
        /\ config_cache = config0.cache /\ config_file = config0.file

\* --list was given beside the --tool of a runnable tool, on a config that
\* holds recent tools, and the three tools have been listed.
C17_Witness ==
    /\ args_list
    /\ args_tool = Arg(ToolPath(CatOne, StripPy(ScriptA)))
    /\ cli_pc = "returned"
    /\ Len(listed) = Len(AppTools)
    /\ config0.cache["recent_tools"] = StaleRecent

\* C18: a module without main is never executed: no launch path calls
\* anything of it, and every launch asked of it is answered by the report
\* that the entry point is missing.
C18_NoMainNeverRun ==
    /\ \A m \in invoked : HasMain(m)
    /\ \A m \in launched :
          ~HasMain(m) => [what |-> "no main", tool |-> m] \in reported

\* The console menu was asked for the tool without main after it had run
\* another tool.
C18_Witness ==
    /\ cli_pc = "menu"
    /\ ModulePath(CatOne, StripPy(ScriptB)) \in launched
    /\ invoked = {ModulePath(CatOne, StripPy(ScriptA))}
    /\ [what |-> "no main", tool |-> ModulePath(CatOne, StripPy(ScriptB))] \in reported

\* The GUI's run button was pressed on the tool without main.
C18_WitnessGui ==
    /\ cli_pc = "none"
    /\ ModulePath(CatOne, StripPy(ScriptB)) \in launched
    /\ invoked # {}

\* The file is one the store loads as it stands: none at all, or a document
\* whose entries all have a value.
LoadsAsWritten(f) ==
    \/ f.kind = "absent"
    \/ /\ f.kind = "doc"
       /\ \A p \in f.shared_data : "value" \in DOMAIN p[2]

\* C19: no call of the store or of load_tools raises to its caller, whatever
\* the store file, the writes and the imports do, and a store file that is
\* corrupt or unreadable is loaded as an empty store. (Violated: load_tools
\* raises when its directory is missing, a file whose entries lack 'value' is
\* loaded as it is, and get_data raises on such an entry.)
C19_NoRaise ==
    /\ lt_pc # "raised"
    /\ last.op = "get" => ret # Raised
    /\ (last.op = "load" /\ ~LoadsAsWritten(file)) =>
           shared_data = EmptyDict /\ data_history = EmptyDict

\* C20: save_config, set_config, add_recent_tool and reset_config return False
\* when the write of the config file fails and True when it succeeds.
C20_WriteResult ==
    cfg_last.op \in {"save", "set", "add", "reset"} =>
        cfg_ret = (cfg_last.io = "ok")

\* C20 witness: an add_recent_tool whose write failed after the file was
\* opened returned False.
C20_Witness ==
    /\ cfg_last = [op |-> "add", io |-> "write_error"]
    /\ cfg_ret = FALSE
    /\ config_file = PartialFile

\* C21: a reset_config that succeeded leaves every config item at its
\* original default, the recent list empty. (Violated: add_recent_tool
\* changes the list of DEFAULT_CONFIG itself, which the reset copies.)
C21_ResetRestores ==
    (cfg_last.op = "reset" /\ cfg_last.io = "ok") =>
        /\ config_cache = DefaultConfig(<<>>)
        /\ DictGet(config_cache, "recent_tools", <<>>) = <<>>

\* C22: from the empty list, after any add_recent_tool calls the recent list
\* has no duplicate and at most 10 entries, the tool added last comes first
\* and the others follow in the order of their last use, only the tools used
\* longest ago being dropped; adding a tool that is in the list leaves the
\* length as it is (the length is that of the tools ever used, up to 10).
C22_RecentList ==
    LET lst == DictGet(config_cache, "recent_tools", <<>>)
    IN  /\ \A i, j \in DOMAIN lst : i # j => lst[i] # lst[j]
        /\ Len(lst) <= MaxRecentDefault
        /\ Len(lst) = Min(Cardinality(DOMAIN last_use), MaxRecentDefault)
        /\ \A i \in DOMAIN lst : lst[i] \in DOMAIN last_use
        /\ lst # <<>> => last_use[lst[1]] = AddsMade
        /\ \A i, j \in DOMAIN lst : i < j => last_use[lst[i]] > last_use[lst[j]]
        /\ \A t \in DOMAIN last_use :
              (\A i \in DOMAIN lst : lst[i] # t) =>
                  \A i \in DOMAIN lst : last_use[t] < last_use[lst[i]]

\* Eleven tools have been used, one of them more than once, and the list is
\* full.
C22_Witness ==
    /\ Cardinality(DOMAIN last_use) = MaxRecentDefault + 1
    /\ AddsMade = MaxAdds
    /\ Len(DictGet(config_cache, "recent_tools", <<>>)) = MaxRecentDefault
    /\ cfg_last = [op |-> "add", io |-> "write_error"]

\* C23: after set_config(key, v) has returned True, get_config(key) is v and
\* a new process loading the file gets v for key; whatever a new process
\* loads, each item the file names has the file's value and each item it
\* does not name has its default.
C23_SetPersists ==
    /\ (cfg_last.op = "set" /\ cfg_last.io = "ok") =>
          /\ DictGet(config_cache, cfg_last.key, None) = cfg_last.value
          /\ DictGet(LoadedConfig(config_file), cfg_last.key, None) = cfg_last.value
    /\ cfg_last.op = "load" =>
          \A k \in ConfigKeys :
              DictGet(config_cache, k, None) =
                  IF k \in FileKeys(config_file)
                  THEN (CHOOSE m \in config_file.config : m[1] = k)[2]
                  ELSE DefaultConfig(<<>>)[k]

\* A new process has loaded the theme an earlier process set, from a file
\* that also holds recent tools.
C23_Witness ==
    /\ cfg_last.op = "load"
    /\ config_cache["theme"] = "dark"
    /\ config_cache["recent_tools"] # <<>>

\* C24: a set_config or add_recent_tool that returns False because its write
\* failed leaves the cache as it was: get_config and get_recent_tools return
\* what they returned before the call. (Violated: the cached dict is changed
\* before the write is tried.)
C24_FailedWriteKeepsCache ==
    [][(cfg_last'.op \in {"set", "add"} /\ cfg_last'.io # "ok" /\ cfg_ret' = FALSE) =>
           \A k \in ConfigKeys :
               DictGet(config_cache', k, None) = DictGet(config_cache, k, None)
           ]_<<config_cache, vars>>

\* C25: from the empty store, every key of the current mapping has a history
\* that is not empty and whose last entry has the value and the tool of the
\* key's current entry.
C25_HistoryHoldsCurrent ==
    \A k \in DOMAIN shared_data :
        /\ k \in DOMAIN data_history
        /\ data_history[k] # <<>>
        /\ data_history[k][Len(data_history[k])].value = shared_data[k].value
        /\ data_history[k][Len(data_history[k])].tool = shared_data[k].tool

\* A new process has loaded the file two tools wrote: k1 is current with the
\* one entry of its history, k2 was deleted and is left with its history.
C25_Witness ==
    /\ last.op = "load"
    /\ "k1" \in DOMAIN shared_data
    /\ shared_data["k1"].tool = "toolA"
    /\ nsets >= 2
    /\ Len(data_history["k1"]) = 1
    /\ "k2" \notin DOMAIN shared_data /\ "k2" \in DOMAIN data_history

\* C26: in the recent menu, typing the number shown beside a tool launches
\* that tool. (Violated: the numbers shown are places in the whole recent
\* list, the number typed is taken as a place among the displayed rows.)
C26_RecentNumber ==
    (cli_last.menu = "recent" /\ cli_last.shown # NoPath) =>
        cli_last.ran = cli_last.shown

\* C27: a launch asked of a registry entry that has no main, from a console
\* menu or with --tool, leaves the recent list as it was. (Violated:
\* add_recent_tool is called before the module is looked at.)
C27_RecordedWhenLaunched ==
    [][(/\ cli_last'.ran # NoPath
        /\ ~HasMain(ModulePath(Split(cli_last'.ran)[1], Split(cli_last'.ran)[2]))) =>
           DictGet(config_cache', "recent_tools", <<>>) =
               DictGet(config_cache, "recent_tools", <<>>)]_<<config_cache, vars>>

\* C28: a GUI run whose run() is over has exactly one finished signal waiting
\* to be handled, however the tool's main ended, and the run button is never
\* left disabled with no worker alive and no signal waiting. (Violated: after
\* SystemExit no signal is emitted, and nothing enables the button again.)
C28_RunEndsWithSignal ==
    /\ \A i \in 1..Len(threads) :
          threads[i].phase = "finished" =>
              Cardinality({j \in 1..Len(finished_queue) :
                              finished_queue[j].thread = i}) = 1
    /\ (/\ ~run_button
        /\ \A i \in 1..Len(threads) : threads[i].phase \notin {"started", "main"}) =>
           finished_queue # <<>>

\* The loaded tools the category and the search text select
\* (python_toolbox_gui.py:298-302 applied to every loaded tool).
Matching(cat, text) ==
    {gui_tools[i].path : i \in {j \in 1..Len(gui_tools) :
                                   ~HiddenBy(text, cat, gui_tools[j].path)}}

\* C29: the items visible in the tool list are exactly the loaded tools of the
\* selected category (or all) whose path or description contains the search
\* text. (Violated: display_tools refills the list without the search text.)
C29_VisibleMatches ==
    {tool_list[i].path : i \in {j \in 1..Len(tool_list) : ~tool_list[j].hidden}} =
        Matching(category_combo, search_input)

\* C30: in the interactive console launcher whatever a launched tool's main
\* does, the launcher is back at its main menu afterwards; it leaves the menu
\* loop only when the user chooses 0. (Violated: the menus catch ValueError
\* only, any other exception of a tool's main ends the launcher.)
C30_LoopSurvives ==
    [][cli_pc = "menu" => (cli_pc' = "menu" \/ cli_last'.menu = "quit")]_<<cli_pc, vars>>

====
